---- MODULE Spec2Model ----
(***************************************************************************)
(* mdserve: the tracked-document store (MarkdownState), the file-event     *)
(* classifier (handle_file_event), the watch pump (the task spawned in     *)
(* new_router), the request handlers and the reload broadcast channel,     *)
(* modelled from src/src/app.rs.                                           *)
(*                                                                         *)
(* Paths and keys are sequences of one-character strings, so that the      *)
(* extension tests, the prefix stripping and the ordering of keys are      *)
(* computed the way the code computes them.                                *)
(***************************************************************************)
EXTENDS Integers, Sequences, FiniteSets, TLC

(***************************************************************************)
(* Bounds of the model.                                                    *)
(***************************************************************************)
\* number of file-system operations the environment performs
MaxFsOps == 2
\* largest value of the file-system clock (modification timestamps)
MaxTime == 2
\* capacity of the hand-off queue (mpsc::channel(100) in the code)
QueueCap == 1
\* capacity of the broadcast channel (broadcast::channel(16) in the code)
ChanCap == 2

(***************************************************************************)
(* Characters and strings.                                                 *)
(***************************************************************************)
LowerChars == <<"a","b","c","d","e","f","g","h","i","j","k","l","m",
                "n","o","p","q","r","s","t","u","v","w","x","y","z">>
UpperChars == <<"A","B","C","D","E","F","G","H","I","J","K","L","M",
                "N","O","P","Q","R","S","T","U","V","W","X","Y","Z">>

IndexIn(ch, table) ==
    IF \E i \in 1..Len(table) : table[i] = ch
    THEN CHOOSE i \in 1..Len(table) : table[i] = ch
    ELSE 0

\* u8::to_ascii_lowercase
ToLowerChar(ch) ==
    IF IndexIn(ch, UpperChars) > 0 THEN LowerChars[IndexIn(ch, UpperChars)] ELSE ch

\* str::to_lowercase / the folding of eq_ignore_ascii_case
ToLower(s) == [i \in 1..Len(s) |-> ToLowerChar(s[i])]

\* the byte value of a character (ASCII), which orders strings
CharCode(ch) ==
    IF IndexIn(ch, UpperChars) > 0 THEN 64 + IndexIn(ch, UpperChars)
    ELSE IF IndexIn(ch, LowerChars) > 0 THEN 96 + IndexIn(ch, LowerChars)
    ELSE IF ch = "." THEN 46
    ELSE IF ch = "/" THEN 47
    ELSE IF ch = "~" THEN 126
    ELSE 0

\* str::ends_with
EndsWith(s, suf) ==
    /\ Len(suf) <= Len(s)
    /\ SubSeq(s, Len(s) - Len(suf) + 1, Len(s)) = suf

\* index of the last occurrence of ch in s, 0 when there is none
LastIndexOf(s, ch) ==
    IF \E i \in 1..Len(s) : s[i] = ch
    THEN CHOOSE i \in 1..Len(s) : s[i] = ch /\ \A j \in (i+1)..Len(s) : s[j] # ch
    ELSE 0

\* Path::file_name: the last component of the path
FileName(p) == SubSeq(p, LastIndexOf(p, "/") + 1, Len(p))

NoExt == <<"<none>">>

\* Path::extension: the part of the file name after its last dot; none when
\* the name has no dot or its only dot is the first character
Extension(p) ==
    LET name == FileName(p)
        dot  == LastIndexOf(name, ".")
    IN  IF dot <= 1 THEN NoExt ELSE SubSeq(name, dot + 1, Len(name))

EXT_MD == <<"m","d">>
EXT_MARKDOWN == <<"m","a","r","k","d","o","w","n">>
DOT_MD == <<".">> \o EXT_MD
DOT_MARKDOWN == <<".">> \o EXT_MARKDOWN

\* is_markdown_file comparing the extension as written (ext == "md")
is_markdown_file_case_sensitive(path) ==
    LET ext == Extension(path)
    IN  IF ext = NoExt THEN FALSE
        ELSE ext = EXT_MD \/ ext = EXT_MARKDOWN

is_markdown_file(path) ==
    LET ext == Extension(path)
    IN  IF ext = NoExt THEN FALSE
        ELSE ToLower(ext) = EXT_MD \/ ToLower(ext) = EXT_MARKDOWN

ImageExts == { <<"p","n","g">>, <<"j","p","g">>, <<"j","p","e","g">>,
               <<"g","i","f">>, <<"s","v","g">>, <<"w","e","b","p">>,
               <<"b","m","p">>, <<"i","c","o">> }

is_image_file(file_path) ==
    LET ext == Extension(file_path)
    IN  IF ext = NoExt THEN FALSE ELSE ToLower(ext) \in ImageExts

\* lexicographic byte order of two strings (String: Ord)
RECURSIVE StrLess(_, _)
StrLess(s, t) ==
    IF t = <<>> THEN FALSE
    ELSE IF s = <<>> THEN TRUE
    ELSE IF CharCode(Head(s)) # CharCode(Head(t))
         THEN CharCode(Head(s)) < CharCode(Head(t))
    ELSE StrLess(Tail(s), Tail(t))

(***************************************************************************)
(* The file system under the root directory.                               *)
(***************************************************************************)
BaseDir == <<"/","r">>

\* PathBuf::join: a relative name is appended, an absolute one replaces the
\* base
Join(base, rel) ==
    IF rel # <<>> /\ Head(rel) = "/" THEN rel ELSE base \o <<"/">> \o rel

A_MD  == <<"a",".","m","d">>
B_MD  == <<"B",".","M","D">>
A_BAK == <<"a",".","m","d","~">>
I_PNG == <<"i",".","p","n","g">>

Names == {A_MD, B_MD, A_BAK, I_PNG}
Files == { Join(BaseDir, n) : n \in Names }

Contents == {"X", "Y"}

NoFile == [exists |-> FALSE, modified |-> 0, content |-> "X", readable |-> FALSE]

\* a directory beside the root, a subdirectory of the root, and the paths a
\* larger tree holds besides Files: a document in the subdirectory, a
\* document and an image outside the root, and three symbolic links in the
\* root: l.md to a.md, x.md to the document outside and j.png to the image
\* outside
OutDir == <<"/","o">>
D_N_MD == <<"d","/","n",".","m","d">>
L_MD   == <<"l",".","m","d">>
X_MD   == <<"x",".","m","d">>
J_PNG  == <<"j",".","p","n","g">>
OUT_MD  == Join(OutDir, <<"s",".","m","d">>)
OUT_PNG == Join(OutDir, <<"p",".","p","n","g">>)

LinkTarget ==
    [l \in {Join(BaseDir, L_MD), Join(BaseDir, X_MD), Join(BaseDir, J_PNG)} |->
        IF l = Join(BaseDir, L_MD) THEN Join(BaseDir, A_MD)
        ELSE IF l = Join(BaseDir, X_MD) THEN OUT_MD
        ELSE OUT_PNG]

\* str::find('/'): the index of the first slash, 0 when there is none
SlashPos(path) ==
    IF \E i \in 1..Len(path) : path[i] = "/"
    THEN CHOOSE i \in 1..Len(path) : path[i] = "/" /\ \A j \in 1..(i-1) : path[j] # "/"
    ELSE 0

\* the components of a path
RECURSIVE Components(_)
Components(p) ==
    IF p = <<>> THEN <<>>
    ELSE LET i == SlashPos(p)
         IN  IF i = 0 THEN <<p>>
             ELSE IF i = 1 THEN Components(Tail(p))
             ELSE <<SubSeq(p, 1, i - 1)>> \o Components(SubSeq(p, i + 1, Len(p)))

\* the components with "." dropped and ".." taking back the one before it
RECURSIVE DotsOut(_, _)
DotsOut(cs, done) ==
    IF cs = <<>> THEN done
    ELSE IF Head(cs) = <<".">> THEN DotsOut(Tail(cs), done)
    ELSE IF Head(cs) = <<".", ".">>
    THEN DotsOut(Tail(cs), IF done = <<>> THEN <<>> ELSE SubSeq(done, 1, Len(done) - 1))
    ELSE DotsOut(Tail(cs), Append(done, Head(cs)))

RECURSIVE AbsPath(_)
AbsPath(cs) == IF cs = <<>> THEN <<>> ELSE <<"/">> \o Head(cs) \o AbsPath(Tail(cs))

\* the path with its dot segments resolved
Normalize(fsys, p) ==
    IF p \in DOMAIN fsys THEN p ELSE AbsPath(DotsOut(Components(p), <<>>))

\* a symbolic link at q followed to its target
FollowLink(fsys, q) ==
    IF q \in DOMAIN LinkTarget /\ q \in DOMAIN fsys /\ fsys[q].exists
    THEN LinkTarget[q]
    ELSE q

\* the file a path leads to: dot segments resolved, a symbolic link followed
Resolve(fsys, p) == FollowLink(fsys, Normalize(fsys, p))

\* a regular file lies at the resolved path q
IsFileAt(fsys, q) ==
    q \in DOMAIN fsys /\ q \notin DOMAIN LinkTarget /\ fsys[q].exists

\* Path::is_file, Path::exists: both follow symbolic links
IsFile(fsys, p) == IsFileAt(fsys, Resolve(fsys, p))

MetadataAt(fsys, q) ==
    IF IsFileAt(fsys, q) THEN [ok |-> TRUE, modified |-> fsys[q].modified]
    ELSE [ok |-> FALSE, modified |-> 0]

\* fs::metadata(path) and Metadata::modified
Metadata(fsys, p) == MetadataAt(fsys, Resolve(fsys, p))

ReadAt(fsys, q) ==
    IF IsFileAt(fsys, q) /\ fsys[q].readable
    THEN [ok |-> TRUE, content |-> fsys[q].content]
    ELSE [ok |-> FALSE, content |-> "X"]

\* fs::read_to_string(path)
ReadToString(fsys, p) == ReadAt(fsys, Resolve(fsys, p))

CanonicalAt(fsys, p, q) ==
    IF IsFileAt(fsys, q) THEN [ok |-> TRUE, path |-> q]
    ELSE [ok |-> FALSE, path |-> p]

\* Path::canonicalize: the absolute path of the file with dot segments and
\* symbolic links resolved; fails for a path that leads to no file
Canonicalize(fsys, p) == CanonicalAt(fsys, p, Resolve(fsys, p))

\* canonicalize().unwrap_or(path)
UnwrapOr(c, path) == IF c.ok THEN c.path ELSE path

\* Path::strip_prefix(base).unwrap_or(path), as a string
StripPrefixOr(p, base) ==
    IF /\ Len(p) > Len(base) + 1
       /\ SubSeq(p, 1, Len(base)) = base
       /\ p[Len(base) + 1] = "/"
    THEN SubSeq(p, Len(base) + 2, Len(p))
    ELSE p

(***************************************************************************)
(* MarkdownState: the tracked-document store.                              *)
(***************************************************************************)
\* markdown_to_html never fails; the artifact is a function of the text
markdown_to_html(content) == <<"html", content>>

TrackedFile(path, last_modified, html) ==
    [path |-> path, last_modified |-> last_modified, html |-> html]

\* the key taken from the path as given, without canonicalize
KeyOf_as_given(fsys, path, base) == StripPrefixOr(path, base)

\* the key MarkdownState::new and handle_markdown_file_change derive
KeyOf(fsys, path, base) ==
    StripPrefixOr(UnwrapOr(Canonicalize(fsys, path), path), base)

\* MarkdownState::new over file_paths that can all be read
NewTracked(fsys, file_paths, base) ==
    [k \in { KeyOf(fsys, p, base) : p \in file_paths } |->
        LET p == CHOOSE q \in file_paths : KeyOf(fsys, q, base) = k
        IN  TrackedFile(Canonicalize(fsys, p).path,
                        Metadata(fsys, p).modified,
                        markdown_to_html(ReadToString(fsys, p).content))]

\* scan_markdown_files: the paths under the root, at any depth, that lead to
\* a regular file and have a markdown extension
scan_markdown_files(fsys) ==
    { p \in DOMAIN fsys :
        /\ StripPrefixOr(p, BaseDir) # p
        /\ IsFile(fsys, p)
        /\ is_markdown_file(p) }

\* result of a store operation: Ok(()) or Err, and the store it leaves
Res(ok, tf) == [ok |-> ok, tracked |-> tf]

\* refresh_file storing the new timestamp and keeping the old artifact
refresh_file_stamp_only(tf, filename, fsys) ==
    IF filename \notin DOMAIN tf THEN Res(TRUE, tf)
    ELSE
        LET tracked  == tf[filename]
            metadata == Metadata(fsys, tracked.path)
            content  == ReadToString(fsys, tracked.path)
        IN  IF ~metadata.ok THEN Res(FALSE, tf)
            ELSE IF metadata.modified > tracked.last_modified
            THEN IF ~content.ok THEN Res(FALSE, tf)
                 ELSE Res(TRUE, [tf EXCEPT ![filename] =
                        TrackedFile(tracked.path, metadata.modified, tracked.html)])
            ELSE Res(TRUE, tf)

\* refresh_file storing the new artifact and keeping the old timestamp
refresh_file_html_only(tf, filename, fsys) ==
    IF filename \notin DOMAIN tf THEN Res(TRUE, tf)
    ELSE
        LET tracked  == tf[filename]
            metadata == Metadata(fsys, tracked.path)
            content  == ReadToString(fsys, tracked.path)
        IN  IF ~metadata.ok THEN Res(FALSE, tf)
            ELSE IF metadata.modified > tracked.last_modified
            THEN IF ~content.ok THEN Res(FALSE, tf)
                 ELSE Res(TRUE, [tf EXCEPT ![filename] =
                        TrackedFile(tracked.path, tracked.last_modified,
                                    markdown_to_html(content.content))])
            ELSE Res(TRUE, tf)

\* refresh_file comparing the timestamps with >= instead of >
refresh_file_ge(tf, filename, fsys) ==
    IF filename \notin DOMAIN tf THEN Res(TRUE, tf)
    ELSE
        LET tracked  == tf[filename]
            metadata == Metadata(fsys, tracked.path)
            content  == ReadToString(fsys, tracked.path)
        IN  IF ~metadata.ok THEN Res(FALSE, tf)
            ELSE IF metadata.modified >= tracked.last_modified
            THEN IF ~content.ok THEN Res(FALSE, tf)
                 ELSE Res(TRUE, [tf EXCEPT ![filename] =
                        TrackedFile(tracked.path, metadata.modified,
                                    markdown_to_html(content.content))])
            ELSE Res(TRUE, tf)

\* refresh_file appending to the artifact (push_str) and keeping the old
\* timestamp
refresh_file_append(tf, filename, fsys) ==
    IF filename \notin DOMAIN tf THEN Res(TRUE, tf)
    ELSE
        LET tracked  == tf[filename]
            metadata == Metadata(fsys, tracked.path)
            content  == ReadToString(fsys, tracked.path)
        IN  IF ~metadata.ok THEN Res(FALSE, tf)
            ELSE IF metadata.modified > tracked.last_modified
            THEN IF ~content.ok THEN Res(FALSE, tf)
                 ELSE Res(TRUE, [tf EXCEPT ![filename] =
                        TrackedFile(tracked.path, tracked.last_modified,
                                    tracked.html \o markdown_to_html(content.content))])
            ELSE Res(TRUE, tf)

\* refresh_file un-tracking a document whose file cannot be stat'ed
refresh_file_untrack(tf, filename, fsys) ==
    IF filename \notin DOMAIN tf THEN Res(TRUE, tf)
    ELSE
        LET tracked  == tf[filename]
            metadata == Metadata(fsys, tracked.path)
            content  == ReadToString(fsys, tracked.path)
        IN  IF ~metadata.ok
            THEN Res(FALSE, [k \in DOMAIN tf \ {filename} |-> tf[k]])
            ELSE IF metadata.modified > tracked.last_modified
            THEN IF ~content.ok THEN Res(FALSE, tf)
                 ELSE Res(TRUE, [tf EXCEPT ![filename] =
                        TrackedFile(tracked.path, metadata.modified,
                                    markdown_to_html(content.content))])
            ELSE Res(TRUE, tf)

refresh_file(tf, filename, fsys) ==
    IF filename \notin DOMAIN tf THEN Res(TRUE, tf)
    ELSE
        LET tracked  == tf[filename]
            metadata == Metadata(fsys, tracked.path)
            content  == ReadToString(fsys, tracked.path)
        IN  IF ~metadata.ok THEN Res(FALSE, tf)
            ELSE IF metadata.modified > tracked.last_modified
            THEN IF ~content.ok THEN Res(FALSE, tf)
                 ELSE Res(TRUE, [tf EXCEPT ![filename] =
                        TrackedFile(tracked.path, metadata.modified,
                                    markdown_to_html(content.content))])
            ELSE Res(TRUE, tf)

\* add_tracked_file without its contains_key test
add_tracked_file_overwrite(tf, base, file_path, fsys) ==
    LET key      == StripPrefixOr(file_path, base)
        metadata == Metadata(fsys, file_path)
        content  == ReadToString(fsys, file_path)
    IN  IF ~metadata.ok \/ ~content.ok THEN Res(FALSE, tf)
        ELSE Res(TRUE, [k \in DOMAIN tf \cup {key} |->
                IF k = key
                THEN TrackedFile(file_path, metadata.modified,
                                 markdown_to_html(content.content))
                ELSE tf[k]])

add_tracked_file(tf, base, file_path, fsys) ==
    LET key      == StripPrefixOr(file_path, base)
        metadata == Metadata(fsys, file_path)
        content  == ReadToString(fsys, file_path)
    IN  IF key \in DOMAIN tf THEN Res(TRUE, tf)
        ELSE IF ~metadata.ok \/ ~content.ok THEN Res(FALSE, tf)
        ELSE Res(TRUE, [k \in DOMAIN tf \cup {key} |->
                IF k = key
                THEN TrackedFile(file_path, metadata.modified,
                                 markdown_to_html(content.content))
                ELSE tf[k]])

\* get_sorted_filenames: the keys in ascending string order
RECURSIVE SortKeys(_)
SortKeys(S) ==
    IF S = {} THEN <<>>
    ELSE LET m == CHOOSE x \in S : \A y \in S \ {x} : StrLess(x, y)
         IN  <<m>> \o SortKeys(S \ {m})

\* get_sorted_filenames comparing the keys without regard to case
RECURSIVE SortKeys_ignore_case(_)
SortKeys_ignore_case(S) ==
    IF S = {} THEN <<>>
    ELSE LET m == CHOOSE x \in S :
                    \A y \in S \ {x} : StrLess(ToLower(x), ToLower(y))
         IN  <<m>> \o SortKeys_ignore_case(S \ {m})

get_sorted_filenames_ignore_case(tf) == SortKeys_ignore_case(DOMAIN tf)

get_sorted_filenames(tf) == SortKeys(DOMAIN tf)

(***************************************************************************)
(* Events of the notify watcher.                                           *)
(***************************************************************************)
Event(kind, paths) == [kind |-> kind, paths |-> paths]
NoEvent == Event("None", <<>>)

RenameKinds == {"RenameBoth", "RenameFrom", "RenameTo", "RenameAny"}

\* what handle_file_event does with path number i of the event: call
\* handle_markdown_file_change on a path ("md"), publish for an image
\* ("img"), or nothing ("none")
Call(what, path) == [what |-> what, path |-> path]

\* handle_file_event treating the Remove of a document like a change of it
classify_remove_refreshes(ev, i, fsys) ==
    IF ev.kind = "RenameBoth"
    THEN IF Len(ev.paths) = 2 THEN Call("md", ev.paths[2]) ELSE Call("none", <<>>)
    ELSE IF ev.kind = "RenameFrom" THEN Call("none", <<>>)
    ELSE IF ev.kind = "RenameTo"
    THEN IF Len(ev.paths) >= 1 THEN Call("md", ev.paths[1]) ELSE Call("none", <<>>)
    ELSE IF ev.kind = "RenameAny"
    THEN IF Len(ev.paths) >= 1 /\ IsFile(fsys, ev.paths[1])
         THEN Call("md", ev.paths[1]) ELSE Call("none", <<>>)
    ELSE LET path == ev.paths[i]
         IN  IF is_markdown_file(path)
             THEN IF ev.kind \in {"Create", "ModifyData", "Remove"}
                  THEN Call("md", path) ELSE Call("none", <<>>)
             ELSE IF IsFile(fsys, path) /\ is_image_file(path)
             THEN IF ev.kind \in {"ModifyData", "ModifyMeta", "Create", "Remove"}
                  THEN Call("img", path) ELSE Call("none", <<>>)
             ELSE Call("none", <<>>)

\* handle_file_event taking the first path (the origin) of a Both rename
classify_both_origin(ev, i, fsys) ==
    IF ev.kind = "RenameBoth"
    THEN IF Len(ev.paths) = 2 THEN Call("md", ev.paths[1]) ELSE Call("none", <<>>)
    ELSE IF ev.kind = "RenameFrom" THEN Call("none", <<>>)
    ELSE IF ev.kind = "RenameTo"
    THEN IF Len(ev.paths) >= 1 THEN Call("md", ev.paths[1]) ELSE Call("none", <<>>)
    ELSE IF ev.kind = "RenameAny"
    THEN IF Len(ev.paths) >= 1 /\ IsFile(fsys, ev.paths[1])
         THEN Call("md", ev.paths[1]) ELSE Call("none", <<>>)
    ELSE LET path == ev.paths[i]
         IN  IF is_markdown_file(path)
             THEN IF ev.kind \in {"Create", "ModifyData"}
                  THEN Call("md", path) ELSE Call("none", <<>>)
             ELSE IF IsFile(fsys, path) /\ is_image_file(path)
             THEN IF ev.kind \in {"ModifyData", "ModifyMeta", "Create", "Remove"}
                  THEN Call("img", path) ELSE Call("none", <<>>)
             ELSE Call("none", <<>>)

\* handle_file_event treating the From half of a rename like the To half
classify_from_like_to(ev, i, fsys) ==
    IF ev.kind = "RenameBoth"
    THEN IF Len(ev.paths) = 2 THEN Call("md", ev.paths[2]) ELSE Call("none", <<>>)
    ELSE IF ev.kind = "RenameFrom" THEN Call("md", ev.paths[1])
    ELSE IF ev.kind = "RenameTo"
    THEN IF Len(ev.paths) >= 1 THEN Call("md", ev.paths[1]) ELSE Call("none", <<>>)
    ELSE IF ev.kind = "RenameAny"
    THEN IF Len(ev.paths) >= 1 /\ IsFile(fsys, ev.paths[1])
         THEN Call("md", ev.paths[1]) ELSE Call("none", <<>>)
    ELSE LET path == ev.paths[i]
         IN  IF is_markdown_file(path)
             THEN IF ev.kind \in {"Create", "ModifyData"}
                  THEN Call("md", path) ELSE Call("none", <<>>)
             ELSE IF IsFile(fsys, path) /\ is_image_file(path)
             THEN IF ev.kind \in {"ModifyData", "ModifyMeta", "Create", "Remove"}
                  THEN Call("img", path) ELSE Call("none", <<>>)
             ELSE Call("none", <<>>)

\* handle_file_event without the path.exists() test of an Any rename
classify_any_unchecked(ev, i, fsys) ==
    IF ev.kind = "RenameBoth"
    THEN IF Len(ev.paths) = 2 THEN Call("md", ev.paths[2]) ELSE Call("none", <<>>)
    ELSE IF ev.kind = "RenameFrom" THEN Call("none", <<>>)
    ELSE IF ev.kind = "RenameTo"
    THEN IF Len(ev.paths) >= 1 THEN Call("md", ev.paths[1]) ELSE Call("none", <<>>)
    ELSE IF ev.kind = "RenameAny"
    THEN IF Len(ev.paths) >= 1
         THEN Call("md", ev.paths[1]) ELSE Call("none", <<>>)
    ELSE LET path == ev.paths[i]
         IN  IF is_markdown_file(path)
             THEN IF ev.kind \in {"Create", "ModifyData"}
                  THEN Call("md", path) ELSE Call("none", <<>>)
             ELSE IF IsFile(fsys, path) /\ is_image_file(path)
             THEN IF ev.kind \in {"ModifyData", "ModifyMeta", "Create", "Remove"}
                  THEN Call("img", path) ELSE Call("none", <<>>)
             ELSE Call("none", <<>>)

\* handle_file_event calling handle_markdown_file_change for a Create only
classify_modify_ignored(ev, i, fsys) ==
    IF ev.kind = "RenameBoth"
    THEN IF Len(ev.paths) = 2 THEN Call("md", ev.paths[2]) ELSE Call("none", <<>>)
    ELSE IF ev.kind = "RenameFrom" THEN Call("none", <<>>)
    ELSE IF ev.kind = "RenameTo"
    THEN IF Len(ev.paths) >= 1 THEN Call("md", ev.paths[1]) ELSE Call("none", <<>>)
    ELSE IF ev.kind = "RenameAny"
    THEN IF Len(ev.paths) >= 1 /\ IsFile(fsys, ev.paths[1])
         THEN Call("md", ev.paths[1]) ELSE Call("none", <<>>)
    ELSE LET path == ev.paths[i]
         IN  IF is_markdown_file(path)
             THEN IF ev.kind \in {"Create"}
                  THEN Call("md", path) ELSE Call("none", <<>>)
             ELSE IF IsFile(fsys, path) /\ is_image_file(path)
             THEN IF ev.kind \in {"ModifyData", "ModifyMeta", "Create", "Remove"}
                  THEN Call("img", path) ELSE Call("none", <<>>)
             ELSE Call("none", <<>>)

classify(ev, i, fsys) ==
    IF ev.kind = "RenameBoth"
    THEN IF Len(ev.paths) = 2 THEN Call("md", ev.paths[2]) ELSE Call("none", <<>>)
    ELSE IF ev.kind = "RenameFrom" THEN Call("none", <<>>)
    ELSE IF ev.kind = "RenameTo"
    THEN IF Len(ev.paths) >= 1 THEN Call("md", ev.paths[1]) ELSE Call("none", <<>>)
    ELSE IF ev.kind = "RenameAny"
    THEN IF Len(ev.paths) >= 1 /\ IsFile(fsys, ev.paths[1])
         THEN Call("md", ev.paths[1]) ELSE Call("none", <<>>)
    ELSE LET path == ev.paths[i]
         IN  IF is_markdown_file(path)
             THEN IF ev.kind \in {"Create", "ModifyData"}
                  THEN Call("md", path) ELSE Call("none", <<>>)
             ELSE IF IsFile(fsys, path) /\ is_image_file(path)
             THEN IF ev.kind \in {"ModifyData", "ModifyMeta", "Create", "Remove"}
                  THEN Call("img", path) ELSE Call("none", <<>>)
             ELSE Call("none", <<>>)

\* number of paths handle_file_event looks at
PathCount(ev) == IF ev.kind \in RenameKinds THEN 1 ELSE Len(ev.paths)

(***************************************************************************)
(* State.                                                                  *)
(***************************************************************************)
VARIABLES
    fs,                \* the files under the root: path -> file
    clock,             \* the file-system clock
    nops,              \* file-system operations performed so far
    versions,          \* every (path, timestamp, content) a file has had
    is_directory_mode, \* MarkdownState.is_directory_mode
    tracked_files,     \* MarkdownState.tracked_files: key -> TrackedFile
    os_events,         \* events the watcher has not handed off yet
    queue,             \* the mpsc channel between watcher and pump
    lock,              \* holder of the Mutex around MarkdownState
    pump,              \* the watch pump task
    subs,              \* the receivers of change_tx, one per viewer
    boot,              \* serve_markdown: where the startup is, and the ports
    req                \* a request handler task waiting for or holding the lock

vars == <<fs, clock, nops, versions, is_directory_mode, tracked_files,
          os_events, queue, lock, pump, subs, boot, req>>

Viewers == {"v1"}

NoEntry == TrackedFile(<<>>, 0, <<>>)
NoKey == <<>>

Entry(tf, key) == IF key \in DOMAIN tf THEN tf[key] ELSE NoEntry

VersionsOf(fsys) ==
    { [path |-> p, modified |-> fsys[p].modified, content |-> fsys[p].content] :
        p \in { q \in DOMAIN fsys : fsys[q].exists } }

File(modified, content, readable) ==
    [exists |-> TRUE, modified |-> modified, content |-> content, readable |-> readable]

\* the directories the server is started on: an empty one, and one with two
\* documents, an image and an older backup copy
EmptyDir == [p \in Files |-> NoFile]
FullDir ==
    [p \in Files |->
        IF p = Join(BaseDir, A_BAK) THEN File(0, "Y", TRUE) ELSE File(1, "X", TRUE)]
InitialDirs == {EmptyDir, FullDir}

\* the pump: where it is (pc), the event in hand, the path it is at, and
\* what the latest handle_markdown_file_change did: key, operation, result,
\* the Reloads sent for the event, and whether a refresh or an admission of
\* an earlier or of this event has failed
PumpIdle == [pc |-> "recv", ev |-> NoEvent, i |-> 0, path |-> <<>>,
             key |-> NoKey, op |-> "none", res |-> "none", sent |-> 0,
             failed |-> FALSE]

\* a viewer session: whether its receiver of change_tx is live (sub), whether
\* its connection is open (sock), the Reloads waiting in its receiver, and
\* whether it has fallen behind (lagged); for the record, the Reloads sent
\* since it subscribed are numbered 1, 2, ... (pub), buf holds the numbers
\* of those waiting and rcvd of those written to the socket
NoSub == [sub |-> FALSE, sock |-> FALSE, unread |-> 0, lagged |-> FALSE, got |-> FALSE,
          pub |-> 0, buf |-> <<>>, rcvd |-> <<>>]

\* serve_markdown: pc is the call it is at (new_router, the bind loop,
\* axum::serve) or "exit" after an error; start_port is the port asked for,
\* port the one the loop is at and then the one bound; in_use are the ports
\* other sockets hold and denied those whose bind fails for another reason
Serving(start_port, port, in_use, denied) ==
    [pc |-> "serve", start_port |-> start_port, port |-> port,
     in_use |-> in_use, denied |-> denied, err |-> "none"]

DefaultPort == 3000

\* a request handler: no request, or one for a path ("/" for the root)
\* waiting for the lock (wait) or holding it (hold); answered counts the
\* requests answered
NoRequest == [pc |-> "idle", path |-> <<>>, answered |-> 0]

\* the state new_router leaves: every initial file was read, the watcher
\* runs, the pump waits for its first event
InitStore ==
    /\ clock = 1
    /\ nops = 0
    /\ fs \in InitialDirs
    /\ versions = VersionsOf(fs)
    /\ is_directory_mode \in BOOLEAN
    /\ \E file_paths \in SUBSET scan_markdown_files(fs) :
          /\ IF is_directory_mode
             THEN file_paths = scan_markdown_files(fs)
             ELSE Cardinality(file_paths) = 1
          /\ tracked_files = NewTracked(fs, file_paths, BaseDir)
    /\ os_events = <<>>
    /\ queue = <<>>
    /\ lock = "free"
    /\ pump = PumpIdle
    /\ subs = [v \in Viewers |-> NoSub]
    /\ req = NoRequest

\* the same with the port bound and the server running
Init ==
    /\ InitStore
    /\ boot = Serving(DefaultPort, DefaultPort, {}, {})

(***************************************************************************)
(* The environment: editors and tools changing files under the root; the   *)
(* OS watcher notes an event for each change.                              *)
(***************************************************************************)
\* the environment makes its next change once the watcher has handed off the
\* events of the previous one
CanEmit == nops < MaxFsOps /\ os_events = <<>>

\* the watcher callback, tx.blocking_send(event): an event goes into the
\* queue as soon as there is room and waits at the watcher while it is full
Room(q) == QueueCap - Len(q)
HandOff(q, evs) ==
    IF Len(evs) <= Room(q) THEN q \o evs ELSE q \o SubSeq(evs, 1, Room(q))
\* the watcher callback with try_send: what finds no room is dropped
Blocked_try_send(q, evs) == <<>>

Blocked(q, evs) ==
    IF Len(evs) <= Room(q) THEN <<>> ELSE SubSeq(evs, Room(q) + 1, Len(evs))

Emit(evs, fsys) ==
    /\ fs' = fsys
    /\ versions' = versions \cup VersionsOf(fsys)
    /\ queue' = HandOff(queue, os_events \o evs)
    /\ os_events' = Blocked(queue, os_events \o evs)
    /\ nops' = nops + 1
    /\ UNCHANGED <<is_directory_mode, boot, req, tracked_files, lock, pump, subs>>

ImgFile == Join(BaseDir, I_PNG)
\* what the environment writes: either content into a.md, and one content
\* into the other files
PathOf(name) == Join(BaseDir, name)

Writes == { <<Join(BaseDir, A_MD), "X">>, <<Join(BaseDir, A_MD), "Y">>,
            <<Join(BaseDir, B_MD), "Y">>, <<Join(BaseDir, A_BAK), "Y">>,
            <<ImgFile, "X">> }
WriteKinds(p) ==
    IF ~fs[p].exists THEN {"Create"}
    ELSE IF p = Join(BaseDir, A_MD) THEN {"Create", "ModifyData"}
    ELSE {"ModifyData"}

\* fs::write(p, c) at time now: creates the file, or overwrites it keeping
\* its permissions; the watcher reports a Create for a new file and a Create
\* or a Modify(Data) for one that was replaced or written in place
FsWrite(p, c, now, kind) ==
    /\ CanEmit
    /\ now \in {clock, clock + 1} /\ now <= MaxTime
    /\ kind \in WriteKinds(p)
    /\ clock' = now
    /\ Emit(<<Event(kind, <<p>>)>>,
            [fs EXCEPT ![p] = File(now, c, IF fs[p].exists THEN fs[p].readable ELSE TRUE)])

\* fs::remove_file(p)
FsRemove(p) ==
    /\ CanEmit
    /\ fs[p].exists
    /\ UNCHANGED clock
    /\ Emit(<<Event("Remove", <<p>>)>>, [fs EXCEPT ![p] = NoFile])

\* chmod: the file becomes unreadable, or readable again
FsChmod(p) ==
    /\ CanEmit
    /\ fs[p].exists
    /\ UNCHANGED clock
    /\ Emit(<<Event("ModifyMeta", <<p>>)>>,
            [fs EXCEPT ![p].readable = ~fs[p].readable])

RenameStyles == {"both", "split", "any"}

RenameEvents(style, src, dst) ==
    IF style = "both" THEN <<Event("RenameBoth", <<src, dst>>)>>
    ELSE IF style = "split"
    THEN <<Event("RenameFrom", <<src>>), Event("RenameTo", <<dst>>)>>
    ELSE <<Event("RenameAny", <<src>>), Event("RenameAny", <<dst>>)>>

\* fs::rename(src, dst): the file keeps its timestamp and content
FsRename(src, dst, style) ==
    /\ src # dst
    /\ fs[src].exists
    /\ CanEmit
    /\ UNCHANGED clock
    /\ Emit(RenameEvents(style, src, dst),
            [fs EXCEPT ![dst] = fs[src], ![src] = NoFile])

RenamePairs == { <<Join(BaseDir, A_MD), Join(BaseDir, A_BAK)>>,
                 <<Join(BaseDir, A_BAK), Join(BaseDir, A_MD)>>,
                 <<Join(BaseDir, A_BAK), Join(BaseDir, B_MD)>> }

(***************************************************************************)
(* The reload broadcast channel (change_tx) and the viewer sessions.       *)
(***************************************************************************)
\* broadcast::Sender::send: every live receiver gets the message; a receiver
\* that already holds ChanCap unread messages loses its oldest one and lags
Publish(ss) ==
    [v \in DOMAIN ss |->
        IF ~ss[v].sub THEN ss[v]
        ELSE IF ss[v].unread < ChanCap
        THEN [ss[v] EXCEPT !.unread = ss[v].unread + 1,
                           !.pub = ss[v].pub + 1,
                           !.buf = Append(ss[v].buf, ss[v].pub + 1)]
        ELSE [ss[v] EXCEPT !.lagged = TRUE, !.pub = ss[v].pub + 1]]

\* handle_websocket up to the spawn of its two tasks: subscribe under the lock
WsConnect(v) ==
    /\ lock = "free"
    /\ ~subs[v].sub /\ ~subs[v].sock
    /\ subs' = [subs EXCEPT ![v] = [NoSub EXCEPT !.sub = TRUE, !.sock = TRUE]]
    /\ UNCHANGED <<fs, clock, nops, versions, is_directory_mode, boot, req, tracked_files,
                   os_events, queue, lock, pump>>

\* recv_task: the client closes the connection
WsClientClose(v) ==
    /\ subs[v].sock
    /\ subs' = [subs EXCEPT ![v].sock = FALSE]
    /\ UNCHANGED <<fs, clock, nops, versions, is_directory_mode, boot, req, tracked_files,
                   os_events, queue, lock, pump>>

\* send_task taking the newest waiting Reload instead of the oldest
WsSendTask_newest_first(v) ==
    /\ subs[v].sub
    /\ subs[v].lagged \/ subs[v].unread > 0
    /\ subs' = [subs EXCEPT ![v] =
            IF subs[v].lagged THEN [NoSub EXCEPT !.sock = subs[v].sock]
            ELSE IF ~subs[v].sock THEN NoSub
            ELSE [subs[v] EXCEPT !.unread = subs[v].unread - 1, !.got = TRUE,
                    !.rcvd = Append(subs[v].rcvd, subs[v].buf[Len(subs[v].buf)]),
                    !.buf = SubSeq(subs[v].buf, 1, Len(subs[v].buf) - 1)]]
    /\ UNCHANGED <<fs, clock, nops, versions, is_directory_mode, boot, req, tracked_files,
                   os_events, queue, lock, pump>>

\* send_task: one turn of `while let Ok(msg) = change_rx.recv().await`: on
\* RecvError::Lagged the loop ends, on a closed connection the send fails
\* and the loop ends, otherwise the oldest waiting Reload is written
WsSendTask(v) ==
    /\ subs[v].sub
    /\ subs[v].lagged \/ subs[v].unread > 0
    /\ subs' = [subs EXCEPT ![v] =
            IF subs[v].lagged THEN [NoSub EXCEPT !.sock = subs[v].sock]
            ELSE IF ~subs[v].sock THEN NoSub
            ELSE [subs[v] EXCEPT !.unread = subs[v].unread - 1, !.got = TRUE,
                    !.rcvd = Append(subs[v].rcvd, Head(subs[v].buf)),
                    !.buf = Tail(subs[v].buf)]]
    /\ UNCHANGED <<fs, clock, nops, versions, is_directory_mode, boot, req, tracked_files,
                   os_events, queue, lock, pump>>

(***************************************************************************)
(* The watch pump: `while let Some(event) = rx.recv().await                *)
(*                      { handle_file_event(event, &state).await }`        *)
(***************************************************************************)
\* where handle_file_event stops next, from path number i on: at a call of
\* handle_markdown_file_change that passes its is_markdown_file test, at a
\* publish for an image, or at the end of the event
RECURSIVE NextStop(_, _, _)
NextStop(ev, i, fsys) ==
    IF i > PathCount(ev) THEN [pc |-> "recv", i |-> i, path |-> <<>>]
    ELSE LET c == classify(ev, i, fsys)
         IN  IF c.what = "md" /\ is_markdown_file(c.path)
             THEN [pc |-> "md_lock", i |-> i, path |-> c.path]
             ELSE IF c.what = "img"
             THEN [pc |-> "img_lock", i |-> i, path |-> c.path]
             ELSE NextStop(ev, i + 1, fsys)

Goto(p, stop) == [p EXCEPT !.pc = stop.pc, !.i = stop.i, !.path = stop.path]

\* rx.recv() and handle_file_event up to its first lock().await
PumpRecv ==
    /\ pump.pc = "recv"
    /\ queue # <<>>
    /\ queue' = HandOff(Tail(queue), os_events)
    /\ os_events' = Blocked(Tail(queue), os_events)
    /\ pump' = Goto([PumpIdle EXCEPT !.ev = Head(queue), !.failed = pump.failed],
                    NextStop(Head(queue), 1, fs))
    /\ UNCHANGED <<fs, clock, nops, versions, is_directory_mode, boot, req, tracked_files,
                   lock, subs>>

\* handle_markdown_file_change without its is_directory_mode test
store_change_any_mode(tf, dirmode, path, fsys) ==
    LET c == Canonicalize(fsys, path)
        canonical == IF c.ok THEN c.path ELSE path
        key == StripPrefixOr(canonical, BaseDir)
    IN  IF key \in DOMAIN tf
        THEN [key |-> key, op |-> "refresh", r |-> refresh_file(tf, key, fsys)]
        ELSE [key |-> key, op |-> "add", r |-> add_tracked_file(tf, BaseDir, canonical, fsys)]

\* what handle_markdown_file_change does to the store under the lock
store_change(tf, dirmode, path, fsys) ==
    LET c == Canonicalize(fsys, path)
        canonical == IF c.ok THEN c.path ELSE path
        key == StripPrefixOr(canonical, BaseDir)
    IN  IF key \in DOMAIN tf
        THEN [key |-> key, op |-> "refresh", r |-> refresh_file(tf, key, fsys)]
        ELSE IF dirmode
        THEN [key |-> key, op |-> "add", r |-> add_tracked_file(tf, BaseDir, canonical, fsys)]
        ELSE [key |-> key, op |-> "none", r |-> Res(FALSE, tf)]

\* handle_markdown_file_change sending the Reload first and working on the
\* store after it
PumpMdMutate_send_first ==
    /\ pump.pc = "md_lock"
    /\ lock = "free"
    /\ lock' = "pump"
    /\ subs' = Publish(subs)
    /\ pump' = [pump EXCEPT !.pc = "md_send", !.sent = pump.sent + 1]
    /\ UNCHANGED <<fs, clock, nops, versions, is_directory_mode, boot, req, tracked_files,
                   os_events, queue>>

\* handle_markdown_file_change sending the Reload whatever the result was
PumpMdMutate_always_send ==
    /\ pump.pc = "md_lock"
    /\ lock = "free"
    /\ LET m == store_change(tracked_files, is_directory_mode, pump.path, fs)
       IN  /\ tracked_files' = m.r.tracked
           /\ lock' = "pump"
           /\ pump' = [pump EXCEPT !.pc = "md_send", !.key = m.key, !.op = m.op,
                                   !.res = IF m.r.ok THEN "ok" ELSE "err"]
    /\ UNCHANGED <<fs, clock, nops, versions, is_directory_mode, boot, req,
                   os_events, queue, subs>>

\* handle_markdown_file_change ending the pump task when the refresh or the
\* admission fails (the error propagated with ? out of the loop)
PumpMdMutate_stop_on_error ==
    /\ pump.pc = "md_lock"
    /\ lock = "free"
    /\ LET m == store_change(tracked_files, is_directory_mode, pump.path, fs)
       IN  /\ tracked_files' = m.r.tracked
           /\ IF m.r.ok
              THEN /\ lock' = "pump"
                   /\ pump' = [pump EXCEPT !.pc = "md_send", !.key = m.key,
                                           !.op = m.op, !.res = "ok"]
              ELSE /\ lock' = "free"
                   /\ pump' = IF m.op = "none"
                              THEN Goto([pump EXCEPT !.key = m.key, !.op = m.op,
                                                     !.res = "none"],
                                        NextStop(pump.ev, pump.i + 1, fs))
                              ELSE [pump EXCEPT !.pc = "stopped", !.key = m.key,
                                                !.op = m.op, !.res = "err",
                                                !.failed = TRUE]
    /\ UNCHANGED <<fs, clock, nops, versions, is_directory_mode, boot, req,
                   os_events, queue, subs>>

\* handle_markdown_file_change returning after the refresh or the admission
\* without sending the Reload
PumpMdMutate_no_send ==
    /\ pump.pc = "md_lock"
    /\ lock = "free"
    /\ LET m == store_change(tracked_files, is_directory_mode, pump.path, fs)
       IN  /\ tracked_files' = m.r.tracked
           /\ lock' = "free"
           /\ pump' = Goto([pump EXCEPT !.key = m.key, !.op = m.op,
                                        !.res = IF m.r.ok THEN "ok"
                                                ELSE IF m.op = "none" THEN "none"
                                                ELSE "err"],
                           NextStop(pump.ev, pump.i + 1, fs))
    /\ UNCHANGED <<fs, clock, nops, versions, is_directory_mode, boot, req,
                   os_events, queue, subs>>

\* handle_markdown_file_change sending the Reload only when the store changed
PumpMdMutate_send_if_changed ==
    /\ pump.pc = "md_lock"
    /\ lock = "free"
    /\ LET m == store_change(tracked_files, is_directory_mode, pump.path, fs)
       IN  /\ tracked_files' = m.r.tracked
           /\ IF m.r.ok /\ m.r.tracked # tracked_files
              THEN /\ lock' = "pump"
                   /\ pump' = [pump EXCEPT !.pc = "md_send", !.key = m.key,
                                           !.op = m.op, !.res = "ok"]
              ELSE /\ lock' = "free"
                   /\ pump' = Goto([pump EXCEPT !.key = m.key, !.op = m.op,
                                        !.res = IF m.op = "none" THEN "none"
                                                ELSE IF m.r.ok THEN "ok" ELSE "err",
                                        !.failed = pump.failed \/ (m.op # "none" /\ ~m.r.ok)],
                                   NextStop(pump.ev, pump.i + 1, fs))
    /\ UNCHANGED <<fs, clock, nops, versions, is_directory_mode, boot, req,
                   os_events, queue, subs>>

\* handle_markdown_file_change: lock, derive the key, refresh or add
PumpMdMutate ==
    /\ pump.pc = "md_lock"
    /\ lock = "free"
    /\ LET m == store_change(tracked_files, is_directory_mode, pump.path, fs)
       IN  /\ tracked_files' = m.r.tracked
           /\ IF m.r.ok
              THEN /\ lock' = "pump"
                   /\ pump' = [pump EXCEPT !.pc = "md_send", !.key = m.key,
                                           !.op = m.op, !.res = "ok"]
              ELSE /\ lock' = "free"
                   /\ pump' = Goto([pump EXCEPT !.key = m.key, !.op = m.op,
                                        !.res = IF m.op = "none" THEN "none" ELSE "err",
                                        !.failed = pump.failed \/ m.op # "none"],
                                   NextStop(pump.ev, pump.i + 1, fs))
    /\ UNCHANGED <<fs, clock, nops, versions, is_directory_mode, boot, req,
                   os_events, queue, subs>>

\* handle_markdown_file_change sending the Reload on a channel whose send
\* waits until every receiver has room
PumpMdSend_blocking ==
    /\ pump.pc = "md_send"
    /\ \A v \in Viewers : subs[v].sub => subs[v].unread < ChanCap
    /\ subs' = Publish(subs)
    /\ lock' = "free"
    /\ pump' = Goto([pump EXCEPT !.sent = pump.sent + 1],
                    NextStop(pump.ev, pump.i + 1, fs))
    /\ UNCHANGED <<fs, clock, nops, versions, is_directory_mode, boot, req, tracked_files,
                   os_events, queue>>

\* handle_markdown_file_change sending the Reload a second time
PumpMdSend_twice ==
    /\ pump.pc = "md_send"
    /\ subs' = Publish(Publish(subs))
    /\ lock' = "free"
    /\ pump' = Goto([pump EXCEPT !.sent = pump.sent + 2],
                    NextStop(pump.ev, pump.i + 1, fs))
    /\ UNCHANGED <<fs, clock, nops, versions, is_directory_mode, boot, req, tracked_files,
                   os_events, queue>>

\* handle_markdown_file_change: change_tx.send(Reload), then the guard drops
PumpMdSend ==
    /\ pump.pc = "md_send"
    /\ subs' = Publish(subs)
    /\ lock' = "free"
    /\ pump' = Goto([pump EXCEPT !.sent = pump.sent + 1],
                    NextStop(pump.ev, pump.i + 1, fs))
    /\ UNCHANGED <<fs, clock, nops, versions, is_directory_mode, boot, req, tracked_files,
                   os_events, queue>>

\* handle_file_event, image branch: lock, change_tx.send(Reload), unlock
PumpImgSend ==
    /\ pump.pc = "img_lock"
    /\ lock = "free"
    /\ subs' = Publish(subs)
    /\ pump' = Goto([pump EXCEPT !.sent = pump.sent + 1],
                    NextStop(pump.ev, pump.i + 1, fs))
    /\ UNCHANGED <<fs, clock, nops, versions, is_directory_mode, boot, req, tracked_files,
                   os_events, queue, lock>>

(***************************************************************************)
(* The request handlers.                                                   *)
(***************************************************************************)
NOT_FOUND == <<"File not found">>

Response(route, path, status, body, refreshed) ==
    [route |-> route, path |-> path, status |-> status, body |-> body,
     refreshed |-> refreshed]

\* render_markdown: the page around the artifact of current_file
render_markdown(tf, current_file) ==
    IF current_file \in DOMAIN tf
    THEN [status |-> 200, body |-> tf[current_file].html]
    ELSE [status |-> 404, body |-> NOT_FOUND]

\* serve_static_file_inner: the bytes of a file under the root
serve_static_file_inner(filename, fsys) ==
    LET c == Canonicalize(fsys, Join(BaseDir, filename))
    IN  IF ~c.ok THEN [status |-> 404, body |-> NOT_FOUND]
        ELSE IF StripPrefixOr(c.path, BaseDir) = c.path
        THEN [status |-> 403, body |-> <<"Access denied">>]
        ELSE IF ~fsys[c.path].readable THEN [status |-> 404, body |-> NOT_FOUND]
        ELSE [status |-> 200, body |-> <<"bytes", fsys[c.path].content>>]

\* serve_file un-tracking a document whose refresh failed
serve_file_untrack_missing(tf, filepath, fsys) ==
    IF EndsWith(filepath, DOT_MD) \/ EndsWith(filepath, DOT_MARKDOWN)
    THEN IF filepath \notin DOMAIN tf
         THEN [tracked |-> tf,
               resp |-> Response("file", filepath, 404, NOT_FOUND, "none")]
         ELSE LET r == refresh_file(tf, filepath, fsys)
                  page == render_markdown(r.tracked, filepath)
              IN  IF r.ok
                  THEN [tracked |-> r.tracked,
                        resp |-> Response("file", filepath, page.status, page.body, "ok")]
                  ELSE [tracked |-> [k \in DOMAIN tf \ {filepath} |-> tf[k]],
                        resp |-> Response("file", filepath, 404, NOT_FOUND, "err")]
    ELSE IF is_image_file(filepath)
    THEN LET st == serve_static_file_inner(filepath, fsys)
         IN  [tracked |-> tf,
              resp |-> Response("static", filepath, st.status, st.body, "none")]
    ELSE [tracked |-> tf, resp |-> Response("file", filepath, 404, NOT_FOUND, "none")]

\* serve_file admitting a document it finds on disk
serve_file_admit_on_request(tf, filepath, fsys) ==
    IF EndsWith(filepath, DOT_MD) \/ EndsWith(filepath, DOT_MARKDOWN)
    THEN LET tf1 == IF filepath \in DOMAIN tf THEN tf
                    ELSE add_tracked_file(tf, BaseDir, Join(BaseDir, filepath), fsys).tracked
         IN  IF filepath \notin DOMAIN tf1
             THEN [tracked |-> tf1,
                   resp |-> Response("file", filepath, 404, NOT_FOUND, "none")]
             ELSE LET r == refresh_file(tf1, filepath, fsys)
                      page == render_markdown(r.tracked, filepath)
                  IN  [tracked |-> r.tracked,
                       resp |-> Response("file", filepath, page.status, page.body,
                                         IF r.ok THEN "ok" ELSE "err")]
    ELSE IF is_image_file(filepath)
    THEN LET st == serve_static_file_inner(filepath, fsys)
         IN  [tracked |-> tf,
              resp |-> Response("static", filepath, st.status, st.body, "none")]
    ELSE [tracked |-> tf, resp |-> Response("file", filepath, 404, NOT_FOUND, "none")]

\* serve_file: the store it leaves and the response
serve_file(tf, filepath, fsys) ==
    IF EndsWith(filepath, DOT_MD) \/ EndsWith(filepath, DOT_MARKDOWN)
    THEN IF filepath \notin DOMAIN tf
         THEN [tracked |-> tf,
               resp |-> Response("file", filepath, 404, NOT_FOUND, "none")]
         ELSE LET r == refresh_file(tf, filepath, fsys)
                  page == render_markdown(r.tracked, filepath)
              IN  [tracked |-> r.tracked,
                   resp |-> Response("file", filepath, page.status, page.body,
                                     IF r.ok THEN "ok" ELSE "err")]
    ELSE IF is_image_file(filepath)
    THEN LET st == serve_static_file_inner(filepath, fsys)
         IN  [tracked |-> tf,
              resp |-> Response("static", filepath, st.status, st.body, "none")]
    ELSE [tracked |-> tf, resp |-> Response("file", filepath, 404, NOT_FOUND, "none")]

\* serve_html_root: the store it leaves and the response
serve_html_root(tf, fsys) ==
    LET names == get_sorted_filenames(tf)
    IN  IF names = <<>>
        THEN [tracked |-> tf,
              resp |-> Response("root", <<>>, 500, <<"No files available to serve">>, "none")]
        ELSE LET filename == Head(names)
                 r == refresh_file(tf, filename, fsys)
                 page == render_markdown(r.tracked, filename)
             IN  [tracked |-> r.tracked,
                  resp |-> Response("root", filename, page.status, page.body,
                                    IF r.ok THEN "ok" ELSE "err")]

\* GET /<filepath> working on the store without taking the lock
ServeFile_unlocked(filepath) ==
    /\ tracked_files' = serve_file(tracked_files, filepath, fs).tracked
    /\ UNCHANGED <<fs, clock, nops, versions, is_directory_mode, boot, req,
                   os_events, queue, lock, pump, subs>>

\* GET /<filepath>
ServeFile(filepath) ==
    /\ lock = "free"
    /\ tracked_files' = serve_file(tracked_files, filepath, fs).tracked
    /\ UNCHANGED <<fs, clock, nops, versions, is_directory_mode, boot, req,
                   os_events, queue, lock, pump, subs>>

\* GET /
ServeHtmlRoot ==
    /\ lock = "free"
    /\ tracked_files' = serve_html_root(tracked_files, fs).tracked
    /\ UNCHANGED <<fs, clock, nops, versions, is_directory_mode, boot, req,
                   os_events, queue, lock, pump, subs>>

(***************************************************************************)
(* A request handler as a task of its own: it arrives, waits for the lock, *)
(* and answers while it holds the lock.                                    *)
(***************************************************************************)
MaxRequests == 1

ROOT == <<"/">>

\* serve_html_root and the document and image branches of serve_file take
\* the lock; the last branch of serve_file answers 404 without it
TakesLock(path) ==
    \/ path = ROOT
    \/ EndsWith(path, DOT_MD) \/ EndsWith(path, DOT_MARKDOWN)
    \/ is_image_file(path)

\* axum calls the handler of the route
ReqArrive(path) ==
    /\ req.pc = "idle"
    /\ req.answered < MaxRequests
    /\ req' = [req EXCEPT !.pc = "wait", !.path = path]
    /\ UNCHANGED <<fs, clock, nops, versions, is_directory_mode, boot, tracked_files,
                   os_events, queue, lock, pump, subs>>

\* state.lock().await returns; a handler that takes no lock goes on at once
ReqLock ==
    /\ req.pc = "wait"
    /\ IF TakesLock(req.path)
       THEN lock = "free" /\ lock' = "req"
       ELSE UNCHANGED lock
    /\ req' = [req EXCEPT !.pc = "hold"]
    /\ UNCHANGED <<fs, clock, nops, versions, is_directory_mode, boot, tracked_files,
                   os_events, queue, pump, subs>>

\* the rest of the handler: refresh, render, answer; the guard is dropped
ReqServe ==
    /\ req.pc = "hold"
    /\ tracked_files' = IF req.path = ROOT
                        THEN serve_html_root(tracked_files, fs).tracked
                        ELSE serve_file(tracked_files, req.path, fs).tracked
    /\ lock' = IF TakesLock(req.path) THEN "free" ELSE lock
    /\ req' = [req EXCEPT !.pc = "idle", !.answered = req.answered + 1]
    /\ UNCHANGED <<fs, clock, nops, versions, is_directory_mode, boot,
                   os_events, queue, pump, subs>>

(***************************************************************************)
(* Startup: serve_markdown calls new_router, then binds a port.            *)
(***************************************************************************)
EmptyStore == <<>>

\* the loop of MarkdownState::new with the map built so far: the file_paths
\* in order, Err at the first whose metadata or content cannot be read
RECURSIVE new_into(_, _, _, _)
\* one round of the loop of MarkdownState::new, on what the calls returned
new_entry(tf, file_paths, base, fsys, metadata, content, key, canonical) ==
    IF ~metadata.ok \/ ~content.ok THEN Res(FALSE, EmptyStore)
    ELSE new_into([k \in DOMAIN tf \cup {key} |->
                      IF k = key
                      THEN TrackedFile(canonical, metadata.modified,
                                       markdown_to_html(content.content))
                      ELSE tf[k]],
                  Tail(file_paths), base, fsys)

new_into(tf, file_paths, base, fsys) ==
    IF file_paths = <<>> THEN Res(TRUE, tf)
    ELSE new_entry(tf, file_paths, base, fsys,
                   Metadata(fsys, Head(file_paths)),
                   ReadToString(fsys, Head(file_paths)),
                   KeyOf(fsys, Head(file_paths), base),
                   UnwrapOr(Canonicalize(fsys, Head(file_paths)), Head(file_paths)))

\* MarkdownState::new ignoring a path that cannot be read
new_skip_unreadable(file_paths, base, fsys) ==
    LET ok == SelectSeq(file_paths,
                  LAMBDA q : Metadata(fsys, q).ok /\ ReadToString(fsys, q).ok)
    IN  new_into(EmptyStore, ok, base, fsys)

\* MarkdownState::new
new(file_paths, base, fsys) == new_into(EmptyStore, file_paths, base, fsys)

\* new_router: the store is built, then the watcher and the pump are
\* started; an error of MarkdownState::new is returned before either exists
NewRouter(file_paths) ==
    /\ boot.pc = "new_router"
    /\ LET r == new(file_paths, BaseDir, fs)
       IN  IF r.ok
           THEN /\ tracked_files' = r.tracked
                /\ boot' = [boot EXCEPT !.pc = "bind"]
           ELSE /\ tracked_files' = EmptyStore
                /\ boot' = [boot EXCEPT !.pc = "exit", !.err = "io"]
    /\ UNCHANGED <<fs, clock, nops, versions, is_directory_mode, req,
                   os_events, queue, lock, pump, subs>>

MAX_PORT_ATTEMPTS == 100
MaxPort == 65535

\* u16::checked_add(1)
checked_add(port) == IF port + 1 > MaxPort THEN [some |-> FALSE, v |-> 0]
                     ELSE [some |-> TRUE, v |-> port + 1]

\* one turn of the loop of bind_with_port_increment allowing 101 ports
BindTry_one_more ==
    /\ boot.pc = "bind"
    /\ boot' =
          IF boot.port \in boot.denied
          THEN [boot EXCEPT !.pc = "exit", !.err = "bind"]
          ELSE IF boot.port \notin boot.in_use
          THEN [boot EXCEPT !.pc = "serve"]
          ELSE LET next == checked_add(boot.port)
               IN  IF ~next.some
                   THEN [boot EXCEPT !.pc = "exit", !.err = "exhausted"]
                   ELSE IF next.v - boot.start_port > MAX_PORT_ATTEMPTS
                   THEN [boot EXCEPT !.pc = "exit", !.err = "none_free"]
                   ELSE [boot EXCEPT !.port = next.v]
    /\ UNCHANGED <<fs, clock, nops, versions, is_directory_mode, req, tracked_files,
                   os_events, queue, lock, pump, subs>>

\* one turn of the loop of bind_with_port_increment: TcpListener::bind on
\* the port; Ok ends the loop, AddrInUse moves to the next port unless there
\* is none or 100 ports were tried, any other error ends the call
BindTry ==
    /\ boot.pc = "bind"
    /\ boot' =
          IF boot.port \in boot.denied
          THEN [boot EXCEPT !.pc = "exit", !.err = "bind"]
          ELSE IF boot.port \notin boot.in_use
          THEN [boot EXCEPT !.pc = "serve"]
          ELSE LET next == checked_add(boot.port)
               IN  IF ~next.some
                   THEN [boot EXCEPT !.pc = "exit", !.err = "exhausted"]
                   ELSE IF next.v - boot.start_port >= MAX_PORT_ATTEMPTS
                   THEN [boot EXCEPT !.pc = "exit", !.err = "none_free"]
                   ELSE [boot EXCEPT !.port = next.v]
    /\ UNCHANGED <<fs, clock, nops, versions, is_directory_mode, req, tracked_files,
                   os_events, queue, lock, pump, subs>>

\* an entry of the navigation tree
TreeItem(name, path, is_dir, children) ==
    [name |-> name, path |-> path, is_dir |-> is_dir, children |-> children]

\* the key build_tree_level sorts an entry by, as written instead of
\* lower-cased
item_key_as_written(name) == name

\* the key build_tree_level sorts an entry by: name.to_lowercase()
item_key(name) == ToLower(name)

\* items.sort_by(|a, b| a.0.cmp(&b.0)): a stable sort by the key
RECURSIVE InsertByKey(_, _)
InsertByKey(x, sorted) ==
    IF sorted = <<>> THEN <<x>>
    ELSE IF StrLess(item_key(x.name), item_key(Head(sorted).name)) THEN <<x>> \o sorted
    ELSE <<Head(sorted)>> \o InsertByKey(x, Tail(sorted))

RECURSIVE sort_by(_)
sort_by(items) ==
    IF items = <<>> THEN <<>>
    ELSE InsertByKey(items[Len(items)], sort_by(SubSeq(items, 1, Len(items) - 1)))

\* build_tree_level: the directories of this level (a BTreeMap, so in key
\* order) with their subtrees, then the files in the order given, all
\* sorted by the lower-cased name
RECURSIVE build_tree_level(_, _)
build_tree_level(paths, prefix) ==
    LET in_dir == SelectSeq(paths, LAMBDA q : SlashPos(q) > 0)
        files  == SelectSeq(paths, LAMBDA q : SlashPos(q) = 0)
        dirs   == SortKeys({ SubSeq(in_dir[i], 1, SlashPos(in_dir[i]) - 1) :
                                i \in 1..Len(in_dir) })
        Under(d) == SelectSeq(in_dir, LAMBDA q : SubSeq(q, 1, SlashPos(q) - 1) = d)
        Rest(q) == SubSeq(q, SlashPos(q) + 1, Len(q))
        Full(n) == IF prefix = <<>> THEN n ELSE prefix \o <<"/">> \o n
        dir_items ==
            [i \in 1..Len(dirs) |->
                TreeItem(dirs[i], <<>>, TRUE,
                    build_tree_level([j \in 1..Len(Under(dirs[i])) |-> Rest(Under(dirs[i])[j])],
                                     Full(dirs[i])))]
        file_items ==
            [i \in 1..Len(files) |-> TreeItem(files[i], Full(files[i]), FALSE, <<>>)]
    IN  sort_by(dir_items \o file_items)

build_file_tree(paths) == build_tree_level(paths, <<>>)

(***************************************************************************)
(* The system.                                                             *)
(***************************************************************************)
Env ==
    \/ \E w \in Writes, now \in 0..MaxTime, kind \in {"Create", "ModifyData"} :
          FsWrite(w[1], w[2], now, kind)
    \/ \E p \in Files : FsRemove(p)
    \/ FsChmod(Join(BaseDir, A_MD))
    \/ \E pr \in RenamePairs, style \in RenameStyles : FsRename(pr[1], pr[2], style)

Server ==
    \/ PumpRecv
    \/ PumpMdMutate
    \/ PumpMdSend
    \/ PumpImgSend
    \/ \E n \in Names : ServeFile(n)
    \/ ServeHtmlRoot

\* the store, the pump and the request handlers under every file-system
\* change; no viewer is connected (a viewer session changes nothing but its
\* own receiver)
Next == Env \/ Server

Spec == Init /\ [][Next]_vars

\* the files the environment touches while viewers are connected
WritesWs == { w \in Writes : w[1] \in {PathOf(A_MD), ImgFile} }

EnvWs ==
    \/ \E w \in WritesWs, now \in 0..MaxTime, kind \in {"Create", "ModifyData"} :
          FsWrite(w[1], w[2], now, kind)
    \/ FsRemove(PathOf(A_MD))
    \/ FsRename(PathOf(A_BAK), PathOf(A_MD), "both")

Viewer ==
    \/ \E v \in Viewers : WsConnect(v)
    \/ \E v \in Viewers : WsClientClose(v)
    \/ \E v \in Viewers : WsSendTask(v)

\* directory mode with viewers connecting, receiving and leaving
InitWs == Init /\ is_directory_mode

NextWs == EnvWs \/ Server \/ Viewer

SpecWs == InitWs /\ [][NextWs]_vars

\* the pump is a spawned task the runtime keeps scheduling, and the lock it
\* waits for is held only within single steps of the request handlers: each
\* of its steps is taken once it stays possible (for PumpRecv, weak fairness
\* with its enabling condition written out)
PumpFairness ==
    /\ []<>~(pump.pc = "recv" /\ queue # <<>>) \/ []<><<PumpRecv>>_vars
    /\ WF_vars(PumpMdMutate)
    /\ WF_vars(PumpMdSend)
    /\ WF_vars(PumpImgSend)

\* the changes that make a refresh or an admission fail and later ones
\* succeed: a.md written, removed, made unreadable, or moved on to B.MD
EnvLive ==
    \/ \E w \in WritesWs, now \in 0..MaxTime, kind \in {"Create", "ModifyData"} :
          FsWrite(w[1], w[2], now, kind)
    \/ FsRemove(PathOf(A_MD))
    \/ FsChmod(PathOf(A_MD))
    \/ \E style \in RenameStyles : FsRename(PathOf(A_MD), PathOf(B_MD), style)

NextLive == EnvLive \/ Server

SpecLive == Init /\ [][NextLive]_vars /\ PumpFairness

\* names a tool gives its temporary files: every casing of the short
\* extension and some of the long one, other extensions, none, a hidden
\* file, and a file in a subdirectory whose own name ends in .md
TempNames == { <<"t",".","m","d">>, <<"t",".","M","D">>, <<"t",".","M","d">>,
               <<"t",".","m","D">>, <<"t",".","M","a","r","k","D","o","w","n">>,
               <<"t",".","m","d","x">>, <<"t">>, <<".","m","d">>,
               <<"d",".","m","d","/","t">> }

\* a tool creates a temporary file under the root and removes it again
\* before the pump comes to its events
FsTemp(p) ==
    /\ CanEmit
    /\ UNCHANGED clock
    /\ Emit(<<Event("Create", <<p>>), Event("Remove", <<p>>)>>, fs)

\* the server on an empty directory with tools leaving temporary files of
\* all kinds of names; none of them is ever read, so the pump never comes
\* to send
InitNames == Init /\ fs = EmptyDir

NextNames ==
    \/ \E n \in TempNames : FsTemp(PathOf(n))
    \/ PumpRecv
    \/ PumpMdMutate

SpecNames == InitNames /\ [][NextNames]_vars

\* fs::write(p, c) at time now, reported by the watcher with two events: a
\* Create and a Modify(Data) for a new file, two Modify(Data) (truncate and
\* write) for one written in place
FsWriteTwice(p, c, now) ==
    /\ CanEmit
    /\ now \in {clock, clock + 1} /\ now <= MaxTime
    /\ clock' = now
    /\ Emit(<<Event(IF fs[p].exists THEN "ModifyData" ELSE "Create", <<p>>),
              Event("ModifyData", <<p>>)>>,
            [fs EXCEPT ![p] = File(now, c, IF fs[p].exists THEN fs[p].readable ELSE TRUE)])

\* the changes viewers are told about: a.md written in place, the image
\* written
EnvView ==
    \/ \E c \in Contents, now \in 0..MaxTime : FsWriteTwice(PathOf(A_MD), c, now)
    \/ \E now \in 0..MaxTime : FsWrite(ImgFile, "X", now, "ModifyData")

\* each session's send_task is a spawned task the runtime keeps scheduling
ViewFairness ==
    /\ PumpFairness
    /\ \A v \in Viewers : WF_vars(WsSendTask(v))

\* directory mode on the full directory, with viewers connecting, receiving
\* and leaving while documents and images are written faster than a viewer
\* may read
InitView == InitWs /\ fs = FullDir

NextView == EnvView \/ Server \/ Viewer

SpecView == InitView /\ [][NextView]_vars /\ ViewFairness

\* requests in fixed and in directory mode while the two documents are
\* written and removed and a viewer listens
WritesReq == { w \in Writes : w[1] \in {PathOf(A_MD), PathOf(B_MD)} }

EnvReq ==
    \/ \E w \in WritesReq, now \in 0..MaxTime, kind \in {"Create", "ModifyData"} :
          FsWrite(w[1], w[2], now, kind)
    \/ FsRemove(PathOf(A_MD))

ServerReq ==
    \/ PumpRecv
    \/ PumpMdMutate
    \/ PumpMdSend
    \/ \E n \in Names : ServeFile(n)
    \/ ServeHtmlRoot

NextReq == EnvReq \/ ServerReq \/ Viewer

SpecReq == Init /\ [][NextReq]_vars

\* bind_with_port_increment on its own: the ports asked for, next to the
\* default one those at the upper end of the range; the ports in use are
\* the first busy ones from start_port on, with or without one more in use
\* two ports further up; at most one port is refused for another reason
StartPorts == {DefaultPort, MaxPort - 100, MaxPort - 99, MaxPort - 98, MaxPort - 1, MaxPort}
BusyCounts == {0, 1, 2, 3, 98, 99, 100, 101}
DeniedAt == {-1, 0, 2, 99}

PortsFrom(p, n) == { q \in p..(p + n - 1) : q <= MaxPort }

BindInputs ==
    { [pc |-> "bind", start_port |-> sp, port |-> sp, err |-> "none",
       in_use |-> PortsFrom(sp, busy) \cup (IF more THEN PortsFrom(sp + busy + 2, 1) ELSE {}),
       denied |-> IF d < 0 THEN {} ELSE PortsFrom(sp + d, 1)] :
        sp \in StartPorts, busy \in BusyCounts, more \in BOOLEAN, d \in DeniedAt }

InitBind ==
    /\ InitStore /\ fs = FullDir /\ is_directory_mode
    /\ boot \in BindInputs

NextBind == BindTry

SpecBind == InitBind /\ [][NextBind]_vars

\* the startup on a larger tree: the root holds a.md, B.MD, the image and the
\* backup copy, with or without the document in the subdirectory and the
\* three links; a.md can be read or not; beside the root lie a document and
\* an image
BootFiles ==
    Files \cup { Join(BaseDir, D_N_MD), OUT_MD, OUT_PNG } \cup DOMAIN LinkTarget

TreeDir(links, nested, a_readable) ==
    [p \in BootFiles |->
        IF p \in {OUT_MD, OUT_PNG} THEN File(1, "Y", TRUE)
        ELSE IF p \in DOMAIN LinkTarget THEN (IF links THEN File(1, "X", TRUE) ELSE NoFile)
        ELSE IF p = Join(BaseDir, D_N_MD) THEN (IF nested THEN File(1, "X", TRUE) ELSE NoFile)
        ELSE IF p = Join(BaseDir, A_MD) THEN File(1, "X", a_readable)
        ELSE IF p = Join(BaseDir, A_BAK) THEN File(0, "Y", TRUE)
        ELSE File(1, "X", TRUE)]

BootDirs == { TreeDir(l, n, r) : l \in BOOLEAN, n \in BOOLEAN, r \in BOOLEAN }

\* the file a single-file start is given
FixedPaths == { Join(BaseDir, A_MD), Join(BaseDir, B_MD), Join(BaseDir, L_MD) }

InitBoot ==
    /\ clock = 1
    /\ nops = 0
    /\ fs \in BootDirs
    /\ versions = VersionsOf(fs)
    /\ is_directory_mode \in BOOLEAN
    /\ tracked_files = EmptyStore
    /\ os_events = <<>>
    /\ queue = <<>>
    /\ lock = "free"
    /\ pump = PumpIdle
    /\ subs = [v \in Viewers |-> NoSub]
    /\ req = NoRequest
    /\ \E in_use \in {{}, {DefaultPort}} :
          boot = [pc |-> "new_router", start_port |-> DefaultPort, port |-> DefaultPort,
                  in_use |-> in_use, denied |-> {}, err |-> "none"]

\* the caller of new_router: the scan of the root in directory mode, the one
\* file otherwise
StartRouter ==
    IF is_directory_mode
    THEN NewRouter(SortKeys(scan_markdown_files(fs)))
    ELSE \E p \in FixedPaths : NewRouter(<<p>>)

\* the watcher and the pump exist
Running == boot.pc \in {"bind", "serve"}

\* ln -s: the link appears and the watcher reports a Create for its path
FsSymlink(l) ==
    /\ CanEmit
    /\ ~fs[l].exists
    /\ UNCHANGED clock
    /\ Emit(<<Event("Create", <<l>>)>>, [fs EXCEPT ![l] = File(clock, "X", TRUE)])

WritesBoot == { <<Join(BaseDir, A_MD), "Y">>, <<Join(BaseDir, D_N_MD), "Y">> }

EnvBoot ==
    \/ \E w \in WritesBoot, now \in 0..MaxTime, kind \in {"Create", "ModifyData"} :
          FsWrite(w[1], w[2], now, kind)
    \/ \E l \in DOMAIN LinkTarget : FsSymlink(l)

\* the paths requested: tracked keys, images, and paths that lead out of the
\* root
BootRequests ==
    { A_MD, D_N_MD, L_MD, I_PNG, J_PNG, OUT_MD,
      <<".", ".", "/", "o", "/", "p", ".", "p", "n", "g">> }

NextBoot ==
    \/ StartRouter
    \/ BindTry
    \/ Running /\ EnvBoot
    \/ PumpRecv
    \/ PumpMdMutate
    \/ PumpMdSend
    \/ boot.pc = "serve" /\ \E n \in BootRequests : ServeFile(n)
    \/ boot.pc = "serve" /\ ServeHtmlRoot

SpecBoot == InitBoot /\ [][NextBoot]_vars

\* the watcher handing events to the pump through the full queue while the
\* pump, a request handler and a viewer session contend for the lock: a.md
\* is written with two events a time, requests come for the root, a.md, the
\* image and a path of no route
LockRequests == { ROOT, A_MD, I_PNG, A_BAK }

EnvLock == FsWriteTwice(PathOf(A_MD), "Y", clock)

PumpLock ==
    \/ PumpRecv
    \/ PumpMdMutate
    \/ PumpMdSend

Requests ==
    \/ \E n \in LockRequests : ReqArrive(n)
    \/ ReqLock
    \/ ReqServe

\* the pump and the request handlers are tasks the runtime keeps scheduling:
\* each of their steps is taken once it stays possible. tokio's Mutex hands
\* the lock to its waiters in the order they came, so a handler that finds
\* the lock free again and again gets it. Weak fairness of a step A is
\* []<>~ENABLED <<A>>_vars \/ []<><<A>>_vars and strong fairness
\* <>[]~ENABLED <<A>>_vars \/ []<><<A>>_vars, with the enabling condition of
\* each step written out
LockFairness ==
    /\ []<>~(pump.pc = "recv" /\ queue # <<>>) \/ []<><<PumpRecv>>_vars
    /\ []<>~(pump.pc = "md_lock" /\ lock = "free") \/ []<><<PumpMdMutate>>_vars
    /\ WF_vars(PumpMdSend)
    /\ <>[]~(req.pc = "wait" /\ (TakesLock(req.path) => lock = "free"))
          \/ []<><<ReqLock>>_vars
    /\ []<>~(req.pc = "hold") \/ []<><<ReqServe>>_vars

InitLock == InitWs /\ fs = FullDir

NextLock == EnvLock \/ PumpLock \/ Requests \/ Viewer

SpecLock == InitLock /\ [][NextLock]_vars /\ LockFairness

TypeOK ==
    /\ clock \in 1..MaxTime
    /\ nops \in 0..MaxFsOps
    /\ DOMAIN fs = Files
    /\ lock \in {"free", "pump"}
    /\ Len(queue) <= QueueCap
    /\ Len(os_events) <= 2
    /\ pump.pc \in {"recv", "md_lock", "md_send", "img_lock"}
    /\ \A v \in Viewers : subs[v].unread \in 0..ChanCap

(***************************************************************************)
(* Properties.                                                             *)
(***************************************************************************)
\* the response to GET /<key> in a state
Served(tf, key, fsys) == serve_file(tf, key, fsys).resp

\* the event kinds that report a file appearing at a path
AppearKinds == {"Create", "RenameTo", "RenameBoth", "RenameAny"}

\* the pump takes the step of handle_markdown_file_change that works on the store
MutateStep == pump.pc = "md_lock" /\ lock = "free" /\ pump' # pump

\* C1: once a key is tracked it stays tracked, and a request for it is answered
\* with its artifact, never with "File not found", whatever events and
\* requests come
C1_TrackedKeyStaysServable ==
    [][ \A k \in DOMAIN tracked_files :
            /\ k \in DOMAIN tracked_files'
            /\ Served(tracked_files', k, fs').status = 200
            /\ Served(tracked_files', k, fs').body # NOT_FOUND ]_vars

\* C1 for the keys serve_file's extension test lets through: a tracked key
\* that ends in ".md" or ".markdown" as written stays tracked and a request
\* for it is answered 200 with an artifact
C1_LowerCaseKeyStaysServable ==
    [][ \A k \in DOMAIN tracked_files :
            (EndsWith(k, DOT_MD) \/ EndsWith(k, DOT_MARKDOWN)) =>
                /\ k \in DOMAIN tracked_files'
                /\ Served(tracked_files', k, fs').status = 200
                /\ Served(tracked_files', k, fs').body # NOT_FOUND ]_vars

\* the pump works on the event of a file that appeared at the path of a
\* tracked document, and the file is there
SaveProcessed(k) ==
    /\ MutateStep
    /\ pump.ev.kind \in AppearKinds
    /\ k = KeyOf(fs, pump.path, BaseDir)
    /\ k \in DOMAIN tracked_files
    /\ IsFile(fs, tracked_files[k].path)

\* C2 as claimed: when the pump has processed the new file of an atomic save,
\* the stored artifact is the rendering of the new content
C2_SaveShowsNewContent ==
    [][ \A k \in Names : SaveProcessed(k) =>
            tracked_files'[k].html = markdown_to_html(fs[tracked_files[k].path].content) ]_vars

\* C2 as amended: it is the rendering of the new content when the new file's
\* timestamp is strictly newer than the stored one and the file can be read;
\* otherwise the entry stays as it was
C2_SaveShowsNewContentIfNewer ==
    [][ \A k \in Names : SaveProcessed(k) =>
            LET old == tracked_files[k]
                f   == fs[old.path]
            IN  IF f.modified > old.last_modified /\ f.readable
                THEN tracked_files'[k] =
                        TrackedFile(old.path, f.modified, markdown_to_html(f.content))
                ELSE tracked_files'[k] = old ]_vars

\* a.md was renamed to the backup name, a new a.md with other content was
\* written, and the pump has refreshed the document from it
C2_Witness ==
    /\ pump.pc = "md_send" /\ pump.op = "refresh" /\ pump.key = A_MD
    /\ pump.ev.kind = "Create"
    /\ fs[PathOf(A_BAK)] = File(1, "X", TRUE)
    /\ fs[PathOf(A_MD)].exists /\ fs[PathOf(A_MD)].content = "Y"
    /\ tracked_files[A_MD].html = markdown_to_html("Y")

\* the key handle_markdown_file_change derives for the path the pump is at
PumpKey == KeyOf(fs, pump.path, BaseDir)

\* the entry a successful handle_markdown_file_change must leave for a key
ExpectedEntry(tf, key, path, fsys) ==
    IF key \in DOMAIN tf
    THEN LET f == fsys[tf[key].path]
         IN  IF f.modified > tf[key].last_modified
             THEN TrackedFile(tf[key].path, f.modified, markdown_to_html(f.content))
             ELSE tf[key]
    ELSE TrackedFile(path, fsys[path].modified, markdown_to_html(fsys[path].content))

\* C3: the store mutation of an event is complete before its Reload is
\* published: the step that refreshes or admits publishes nothing and leaves
\* the post-mutation entry, nothing touches the store until the Reload goes
\* out, and a Reload goes out only after that, so a subscriber that reads on
\* receiving it finds the post-mutation entry
C3_MutationBeforeReload ==
    [][ /\ (MutateStep /\ pump'.pc = "md_send") =>
              /\ PumpKey \in DOMAIN tracked_files'
              /\ tracked_files'[PumpKey] =
                    ExpectedEntry(tracked_files, PumpKey, pump.path, fs)
              /\ subs' = subs /\ pump'.sent = pump.sent
        /\ pump.pc = "md_send" => lock = "pump" /\ tracked_files' = tracked_files
        /\ (pump'.sent > pump.sent \/ \E v \in Viewers : subs'[v].unread > subs[v].unread)
              => pump.pc \in {"md_send", "img_lock"} ]_vars

\* a viewer has received the Reload of a refresh that replaced the entry of
\* a.md, and the store holds the new artifact
C3_Witness ==
    /\ \E v \in Viewers : subs[v].got /\ subs[v].unread = 0
    /\ nops = 1 /\ queue = <<>> /\ lock = "free"
    /\ pump.pc = "recv" /\ pump.op = "refresh" /\ pump.key = A_MD /\ pump.sent = 1
    /\ tracked_files[A_MD] = TrackedFile(PathOf(A_MD), 2, markdown_to_html("Y"))

\* C4: in fixed mode no step adds or removes a key, and the pump's step for a
\* matching file that is not tracked leaves the store alone and sends nothing
C4_FixedModeKeysConstant ==
    [][ ~is_directory_mode =>
          /\ DOMAIN tracked_files' = DOMAIN tracked_files
          /\ (MutateStep /\ PumpKey \notin DOMAIN tracked_files) =>
                /\ tracked_files' = tracked_files
                /\ pump'.pc # "md_send" /\ pump'.sent = pump.sent ]_vars

\* in fixed mode the pump has handled the event of a new matching file B.MD
\* that appeared under the root
C4_Witness ==
    /\ ~is_directory_mode
    /\ pump.pc = "recv" /\ pump.ev.kind \in AppearKinds
    /\ pump.key = B_MD /\ pump.op = "none"
    /\ IsFile(fs, PathOf(B_MD))
    /\ B_MD \notin DOMAIN tracked_files

Count(seq, x) == Cardinality({ i \in 1..Len(seq) : seq[i] = x })

\* C5: in directory mode a new matching file that can be read is admitted,
\* every tracked key is listed exactly once, an event for a tracked key adds
\* no key, and add_tracked_file on a tracked key returns Ok and changes nothing
C5_AdmittedExactlyOnce ==
    /\ [](is_directory_mode =>
            /\ \A k \in DOMAIN tracked_files :
                  /\ Count(get_sorted_filenames(tracked_files), k) = 1
                  /\ add_tracked_file(tracked_files, BaseDir, tracked_files[k].path, fs)
                        = Res(TRUE, tracked_files)
            /\ Len(get_sorted_filenames(tracked_files)) = Cardinality(DOMAIN tracked_files))
    /\ [][ (is_directory_mode /\ MutateStep) =>
             IF PumpKey \in DOMAIN tracked_files
             THEN DOMAIN tracked_files' = DOMAIN tracked_files
             ELSE IF IsFile(fs, pump.path) /\ fs[pump.path].readable
             THEN /\ DOMAIN tracked_files' = DOMAIN tracked_files \cup {PumpKey}
                  /\ tracked_files'[PumpKey] =
                        ExpectedEntry(tracked_files, PumpKey, pump.path, fs)
                  /\ \A k \in DOMAIN tracked_files : tracked_files'[k] = tracked_files[k]
             ELSE tracked_files' = tracked_files ]_vars

\* a.md appeared in an empty directory and was admitted, and a second Create
\* event for it has been handled: it is listed once
C5_Witness ==
    /\ is_directory_mode
    /\ nops = 2
    /\ pump.pc = "recv" /\ pump.ev.kind = "Create" /\ pump.op = "refresh"
    /\ pump.res = "ok" /\ pump.key = A_MD
    /\ get_sorted_filenames(tracked_files) = <<A_MD>>

C7_RefreshIffStrictlyNewer ==
    \A name \in Names :
        LET r == refresh_file(tracked_files, name, fs)
        IN  IF name \notin DOMAIN tracked_files THEN r = Res(TRUE, tracked_files)
            ELSE LET old == tracked_files[name]
                     f   == fs[old.path]
                     newer == f.modified > old.last_modified
                 IN  (f.exists /\ (newer => f.readable)) =>
                        /\ r.ok
                        /\ (r.tracked # tracked_files) <=> newer
                        /\ newer => r.tracked = [tracked_files EXCEPT ![name] =
                             TrackedFile(old.path, f.modified, markdown_to_html(f.content))]

\* the pump has refreshed a.md from a file older than the stored timestamp
\* and with other content: Ok, and the entry is as it was
C7_Witness ==
    /\ pump.pc = "md_send" /\ pump.op = "refresh" /\ pump.res = "ok" /\ pump.key = A_MD
    /\ fs[PathOf(A_MD)].exists
    /\ fs[PathOf(A_MD)].modified < tracked_files[A_MD].last_modified
    /\ markdown_to_html(fs[PathOf(A_MD)].content) # tracked_files[A_MD].html

\* C8: a second refresh_file with the files as they are leaves the store of
\* the first one
C8_RefreshIdempotent ==
    \A name \in Names :
        LET first  == refresh_file(tracked_files, name, fs)
            second == refresh_file(first.tracked, name, fs)
        IN  second.tracked = first.tracked

\* a.md on disk is newer than the stored timestamp and can be read: the
\* first refresh replaces the entry
C8_Witness ==
    /\ A_MD \in DOMAIN tracked_files
    /\ fs[PathOf(A_MD)].exists /\ fs[PathOf(A_MD)].readable
    /\ fs[PathOf(A_MD)].modified > tracked_files[A_MD].last_modified
    /\ refresh_file(tracked_files, A_MD, fs).tracked # tracked_files

\* the stat or the read of refresh_file fails for the key
RefreshFails(tf, key, fsys) ==
    LET f == fsys[tf[key].path]
    IN  ~f.exists \/ (f.modified > tf[key].last_modified /\ ~f.readable)

\* C9: when the stat or the read fails, refresh_file returns Err and leaves
\* the store as it was, and a request whose refresh failed answers 200 with
\* the artifact that was stored
C9_RefreshErrorKeepsEntry ==
    /\ \A k \in DOMAIN tracked_files :
          RefreshFails(tracked_files, k, fs) =>
            /\ refresh_file(tracked_files, k, fs) = Res(FALSE, tracked_files)
            /\ LET out == serve_file(tracked_files, k, fs)
               IN  /\ (EndsWith(k, DOT_MD) \/ EndsWith(k, DOT_MARKDOWN))
                         => out.resp.refreshed = "err"
                   /\ out.resp.refreshed = "err" =>
                         /\ out.resp.status = 200
                         /\ out.resp.body = tracked_files[k].html
                         /\ out.tracked = tracked_files
    /\ LET out == serve_html_root(tracked_files, fs)
       IN  out.resp.refreshed = "err" =>
             /\ RefreshFails(tracked_files, out.resp.path, fs)
             /\ out.resp.status = 200
             /\ out.resp.body = tracked_files[out.resp.path].html
             /\ out.tracked = tracked_files

\* a.md is tracked, its file is newer than the stored timestamp and cannot
\* be read, and the pump's refresh of it has failed
C9_Witness ==
    /\ A_MD \in DOMAIN tracked_files
    /\ fs[PathOf(A_MD)].exists /\ ~fs[PathOf(A_MD)].readable
    /\ fs[PathOf(A_MD)].modified > tracked_files[A_MD].last_modified
    /\ pump.pc = "recv" /\ pump.op = "refresh" /\ pump.res = "err" /\ pump.key = A_MD

\* the refresh or the admission the pump is about to make fails
PumpOpFails ==
    IF PumpKey \in DOMAIN tracked_files THEN RefreshFails(tracked_files, PumpKey, fs)
    ELSE is_directory_mode /\ ~(IsFile(fs, pump.path) /\ fs[pump.path].readable)

\* C10: when the pump's refresh or admission fails, the store stays as it
\* was and no Reload is published for the event
C10_FailedPumpOpNoReload ==
    /\ [][ (MutateStep /\ PumpOpFails) =>
              /\ tracked_files' = tracked_files
              /\ pump'.res = "err"
              /\ pump'.pc # "md_send"
              /\ pump'.sent = pump.sent /\ subs' = subs ]_vars
    /\ [](pump.res = "err" => pump.sent = 0)

\* B.MD appeared in directory mode and was gone when the pump came to admit
\* it: the admission failed and nothing was sent
C10_Witness ==
    /\ is_directory_mode
    /\ pump.pc = "recv" /\ pump.op = "add" /\ pump.res = "err" /\ pump.key = B_MD
    /\ pump.sent = 0
    /\ B_MD \notin DOMAIN tracked_files

\* every event the watcher has delivered so far has been received by the
\* pump and handled to its end
Drained == pump.pc = "recv" /\ queue = <<>> /\ os_events = <<>>

\* C11: once a refresh or an admission of the pump has failed, the pump goes
\* on: from every later state it comes to have handled every event the
\* watcher has delivered
C11_PumpSurvivesErrors == pump.failed ~> Drained

\* after a failed refresh or admission the pump has received a later event
\* and refreshed a document for it; the Reload is still to be sent
C11_Witness ==
    /\ pump.failed
    /\ pump.pc = "md_send" /\ pump.op = "refresh" /\ pump.res = "ok"

\* C12: for each event the pump works on the store at most once and sends at
\* most one Reload, and the work on the store comes first: the step on the
\* store is taken with no earlier one and no Reload for the event, and a
\* Reload is sent only when none was sent for the event
C12_OneMutationOneReloadPerEvent ==
    /\ [](pump.sent <= 1)
    /\ [][ /\ MutateStep => pump.op = "none" /\ pump.res = "none" /\ pump.sent = 0
           /\ (pump.pc # "md_lock" /\ pump'.ev = pump.ev /\ pump.pc # "recv")
                 => tracked_files' = tracked_files \/ pump' = pump
           /\ pump'.sent > pump.sent =>
                 /\ pump.sent = 0 /\ pump'.sent = 1
                 /\ pump.pc = "md_send" => pump.res = "ok" ]_vars

\* the pump has handled the Create event of a new file to its end: one
\* admission, then one Reload
C12_Witness ==
    /\ pump.pc = "recv" /\ pump.ev.kind = "Create"
    /\ pump.op = "add" /\ pump.res = "ok" /\ pump.sent = 1
    /\ pump.key \in DOMAIN tracked_files

\* every live receiver of change_tx has been handed one more Reload, or was
\* full and lags
ReloadPublished ==
    \A v \in Viewers :
        IF ~subs[v].sub THEN subs'[v] = subs[v]
        ELSE IF subs[v].unread < ChanCap
        THEN /\ subs'[v].unread = subs[v].unread + 1
             /\ subs'[v].buf = Append(subs[v].buf, subs[v].pub + 1)
             /\ subs'[v].lagged = subs[v].lagged /\ subs'[v].rcvd = subs[v].rcvd
        ELSE /\ subs'[v].lagged
             /\ subs'[v].unread = subs[v].unread /\ subs'[v].buf = subs[v].buf
             /\ subs'[v].rcvd = subs[v].rcvd

\* C13 as claimed: every step that changes an artifact or adds a document,
\* whichever task takes it, belongs to an operation that goes on to publish
\* one Reload: it leaves that task holding the lock with the send ahead
C13_EveryMutationPublishes ==
    [][ tracked_files' # tracked_files => pump'.pc = "md_send" /\ lock' = "pump" ]_vars

\* C13 as amended: a change of the store by the pump is followed, before the
\* pump gives up the lock, by one Reload to every live receiver; a change of
\* the store by a request handler publishes nothing
C13_PumpMutationPublishesOnce ==
    [][ /\ (MutateStep /\ tracked_files' # tracked_files) =>
              pump'.pc = "md_send" /\ lock' = "pump" /\ subs' = subs
        /\ (pump.pc = "md_send" /\ pump' # pump) =>
              /\ ReloadPublished
              /\ pump'.sent = pump.sent + 1 /\ pump'.pc # "md_send"
              /\ lock' = "free" /\ tracked_files' = tracked_files
        /\ (lock = "pump" /\ lock' = "free") => pump.pc = "md_send" /\ pump' # pump
        /\ (tracked_files' # tracked_files /\ ~MutateStep) =>
              subs' = subs /\ pump' = pump ]_vars

\* a connected viewer that has not read yet holds the one Reload of the
\* admission of a.md
C13_Witness ==
    /\ \E v \in Viewers : subs[v].sub /\ subs[v].unread = 1 /\ ~subs[v].got
    /\ pump.pc = "recv" /\ pump.op = "add" /\ pump.res = "ok" /\ pump.sent = 1
    /\ pump.key = A_MD /\ A_MD \in DOMAIN tracked_files

\* C14 as claimed: only the pump's step of handle_markdown_file_change
\* changes the store
C14_OnlyPumpWrites ==
    [][ tracked_files' # tracked_files => MutateStep ]_vars

\* C14 as amended: only the pump adds a key and nothing removes one; a
\* request handler changes the store only by replacing the timestamp and the
\* artifact of one tracked document by those of its strictly newer file; a
\* viewer session changes nothing of the store
C14_RequestsOnlyRefresh ==
    [][ /\ (tracked_files' # tracked_files /\ ~MutateStep) =>
              /\ pump' = pump /\ subs' = subs /\ lock = "free" /\ lock' = "free"
              /\ \E k \in DOMAIN tracked_files :
                    LET old == tracked_files[k]
                        f   == fs[old.path]
                    IN  /\ f.exists /\ f.readable /\ f.modified > old.last_modified
                        /\ tracked_files' = [tracked_files EXCEPT ![k] =
                              TrackedFile(old.path, f.modified, markdown_to_html(f.content))]
        /\ DOMAIN tracked_files' # DOMAIN tracked_files =>
              MutateStep /\ DOMAIN tracked_files \subseteq DOMAIN tracked_files'
        /\ subs' # subs => tracked_files' = tracked_files ]_vars

\* a.md was written once, the pump has received the event and has not worked
\* on the store yet, and the store already holds the new version: a request
\* refreshed it
C14_Witness ==
    /\ nops = 1 /\ queue = <<>> /\ os_events = <<>>
    /\ pump.pc = "md_lock" /\ pump.path = PathOf(A_MD) /\ lock = "free"
    /\ A_MD \in DOMAIN tracked_files
    /\ fs[PathOf(A_MD)] = File(2, "Y", TRUE)
    /\ tracked_files[A_MD] = TrackedFile(PathOf(A_MD), 2, markdown_to_html("Y"))

\* C15: the store is read and changed only under its lock: while the pump
\* holds the lock no request handler, no subscribing viewer and no other
\* step of the pump that reads or changes the store can run, a step changes
\* the store only if it took the lock when it was free or holds it, and what
\* a request reads of a document is the timestamp and the artifact of one
\* version of its file
C15_StoreAccessUnderLock ==
    /\ [](lock = "pump" <=> pump.pc = "md_send")
    /\ [](lock = "pump" =>
            /\ \A n \in Names : ~ENABLED ServeFile(n)
            /\ ~ENABLED ServeHtmlRoot
            /\ \A v \in Viewers : ~ENABLED WsConnect(v)
            /\ ~ENABLED PumpMdMutate /\ ~ENABLED PumpImgSend)
    /\ [](\A n \in DOMAIN tracked_files :
            LET read == serve_file(tracked_files, n, fs).tracked[n]
            IN  \E ver \in versions :
                    /\ ver.path = read.path
                    /\ ver.modified = read.last_modified
                    /\ markdown_to_html(ver.content) = read.html)
    /\ [][ tracked_files' # tracked_files => lock = "free" ]_vars

\* the pump holds the lock between its refresh and its send while a.md has
\* changed again and a viewer is not subscribed yet: the request that would
\* refresh a.md and the subscription wait
C15_Witness ==
    /\ lock = "pump" /\ pump.pc = "md_send" /\ pump.key = A_MD
    /\ fs[PathOf(A_MD)].exists /\ fs[PathOf(A_MD)].readable
    /\ fs[PathOf(A_MD)].modified > tracked_files[A_MD].last_modified
    /\ \E v \in Viewers : ~subs[v].sub /\ ~subs[v].sock

\* the events the watcher has delivered and the pump has not received, oldest
\* first: those in the channel, then those waiting for room
Pending == queue \o os_events

\* the events a step has added at the end of Pending
Delivered == SubSeq(Pending', Len(Pending) + 1, Len(Pending'))

\* the pump takes an event from the channel (rx.recv returns)
RecvStep ==
    /\ pump.pc = "recv" /\ nops' = nops
    /\ pump' # pump \/ queue' # queue \/ os_events' # os_events

\* C16: the pump receives the events in the order the watcher delivered
\* them and none is lost, also while the channel is full: a file-system
\* change appends its events (both halves of a split rename) after those
\* still pending, the pump always takes the oldest pending event and leaves
\* the others in their order, no other step touches them, and an event waits
\* at the watcher only while the channel is full
C16_EventsInDeliveryOrder ==
    /\ [](Len(queue) <= QueueCap /\ (os_events # <<>> => Len(queue) = QueueCap))
    /\ [][ /\ nops' # nops =>
                /\ Len(Pending') > Len(Pending)
                /\ SubSeq(Pending', 1, Len(Pending)) = Pending
                /\ pump' = pump
                /\ Delivered[1].kind = "RenameFrom" =>
                      Len(Delivered) = 2 /\ Delivered[2].kind = "RenameTo"
                /\ (Delivered[1].kind = "RenameAny" /\ ~IsFile(fs', Delivered[1].paths[1])) =>
                      Len(Delivered) = 2 /\ Delivered[2].kind = "RenameAny"
           /\ RecvStep =>
                /\ Pending # <<>>
                /\ pump'.ev = Head(Pending)
                /\ Pending' = Tail(Pending)
           /\ (nops' = nops /\ ~RecvStep) =>
                Pending' = Pending /\ queue' = queue ]_vars

\* the channel is full and a later event waits at the watcher: the pump has
\* taken the Create, the From half of a rename is in the channel and its To
\* half waits
C16_Witness ==
    /\ pump.ev.kind = "Create"
    /\ Len(queue) = QueueCap /\ queue[1].kind = "RenameFrom"
    /\ Len(os_events) = 1 /\ os_events[1].kind = "RenameTo"

\* the pump takes a step while it has the event ev in hand, or receives it
HandlingStep(kinds) ==
    \/ RecvStep /\ Head(Pending).kind \in kinds
    \/ pump.pc # "recv" /\ pump.ev.kind \in kinds /\ pump' # pump

\* where handle_file_event goes for a path it takes as a destination: into
\* handle_markdown_file_change when the path passes is_markdown_file, to its
\* end otherwise
DestStop(dst) ==
    IF is_markdown_file(dst) THEN [pc |-> "md_lock", i |-> 1, path |-> dst]
    ELSE [pc |-> "recv", i |-> 2, path |-> <<>>]

\* handle_file_event returns without a call
Ignored == [pc |-> "recv", i |-> 2, path |-> <<>>]

\* what a call of handle_markdown_file_change for the path in hand leaves
DestOutcome ==
    /\ pump.path = pump.ev.paths[Len(pump.ev.paths)]
    /\ IF PumpOpFails THEN tracked_files' = tracked_files /\ pump'.pc # "md_send"
       ELSE IF PumpKey \in DOMAIN tracked_files \/ is_directory_mode
       THEN /\ tracked_files' = [k \in DOMAIN tracked_files \cup {PumpKey} |->
                    IF k = PumpKey
                    THEN ExpectedEntry(tracked_files, PumpKey, pump.path, fs)
                    ELSE tracked_files[k]]
            /\ pump'.pc = "md_send"
       ELSE tracked_files' = tracked_files /\ pump'.pc # "md_send"

\* C17: a Remove event never reaches handle_markdown_file_change, whatever
\* its path, and no step the pump takes for it changes the store
C17_RemoveLeavesStore ==
    /\ [](\A p \in Files :
            classify(Event("Remove", <<p>>), 1, fs).what # "md")
    /\ [](pump.ev.kind = "Remove" =>
            /\ pump.pc \in {"recv", "img_lock"}
            /\ pump.op = "none" /\ pump.res = "none")
    /\ [][ HandlingStep({"Remove"}) => tracked_files' = tracked_files ]_vars

\* the pump has handled the Remove of the tracked a.md: the file is gone and
\* the document is tracked with its artifact
C17_Witness ==
    /\ pump.pc = "recv" /\ pump.ev = Event("Remove", <<PathOf(A_MD)>>)
    /\ ~IsFile(fs, PathOf(A_MD))
    /\ A_MD \in DOMAIN tracked_files
    /\ tracked_files[A_MD].html = markdown_to_html("X")

\* C18: a Both or a To rename is handled by its destination alone: whatever
\* the origin, the pump goes into handle_markdown_file_change with the
\* destination when it passes is_markdown_file and does nothing otherwise,
\* and there the destination is refreshed if tracked, admitted if untracked
\* in directory mode, and left alone if untracked in fixed mode
C18_RenameUsesDestination ==
    [][ /\ (RecvStep /\ Head(Pending).kind \in {"RenameBoth", "RenameTo"}) =>
                LET ev == Head(Pending)
                    dst == ev.paths[Len(ev.paths)]
                    stop == DestStop(dst)
                IN  /\ pump'.pc = stop.pc /\ pump'.path = stop.path
                    /\ tracked_files' = tracked_files
                    /\ NextStop(Event("RenameTo", <<dst>>), 1, fs) = stop
                    /\ \A src \in Files :
                          NextStop(Event("RenameBoth", <<src, dst>>), 1, fs) = stop
        /\ (MutateStep /\ pump.ev.kind \in {"RenameBoth", "RenameTo"}) =>
                DestOutcome ]_vars

\* the backup a.md~ was renamed to a.md, reported as one Both event: the
\* origin is no document, and the pump has refreshed a.md
C18_Witness ==
    /\ pump.ev = Event("RenameBoth", <<PathOf(A_BAK), PathOf(A_MD)>>)
    /\ pump.pc = "md_send" /\ pump.op = "refresh" /\ pump.res = "ok"
    /\ pump.key = A_MD

\* C19: the From half of a rename is ignored whatever its path: the pump
\* makes no call for it, changes no entry and sends no Reload
C19_RenameFromIgnored ==
    /\ [](\A p \in Files :
            NextStop(Event("RenameFrom", <<p>>), 1, fs) = Ignored)
    /\ [](pump.ev.kind = "RenameFrom" =>
            /\ pump.pc = "recv" /\ pump.op = "none" /\ pump.res = "none"
            /\ pump.sent = 0)
    /\ [][ HandlingStep({"RenameFrom"}) =>
              tracked_files' = tracked_files /\ subs' = subs /\ lock' = lock ]_vars

\* the tracked a.md was renamed away and the pump has handled the From half:
\* nothing was done for it
C19_Witness ==
    /\ pump.pc = "recv" /\ pump.ev = Event("RenameFrom", <<PathOf(A_MD)>>)
    /\ ~IsFile(fs, PathOf(A_MD))
    /\ A_MD \in DOMAIN tracked_files
    /\ pump.sent = 0

\* C20: an Any rename is handled like a destination when its path exists as
\* the pump handles it, and ignored when the path is absent: no call, no
\* change of the store, no Reload
C20_RenameAnyByExistence ==
    /\ [](\A p \in Files :
            NextStop(Event("RenameAny", <<p>>), 1, fs) =
                IF IsFile(fs, p) THEN DestStop(p) ELSE Ignored)
    /\ [][ /\ (RecvStep /\ Head(Pending).kind = "RenameAny") =>
                LET p == Head(Pending).paths[1]
                    stop == IF IsFile(fs, p) THEN DestStop(p) ELSE Ignored
                IN  /\ pump'.pc = stop.pc /\ pump'.path = stop.path
                    /\ pump'.sent = 0 /\ pump'.op = "none"
                    /\ tracked_files' = tracked_files /\ subs' = subs
           /\ (MutateStep /\ pump.ev.kind = "RenameAny") => DestOutcome ]_vars

\* the tracked a.md was renamed away, reported as two Any events: the pump
\* has handled the one of the absent a.md and ignored it, the one of the new
\* path waits
C20_Witness ==
    /\ pump.pc = "recv" /\ pump.ev = Event("RenameAny", <<PathOf(A_MD)>>)
    /\ ~IsFile(fs, PathOf(A_MD))
    /\ A_MD \in DOMAIN tracked_files
    /\ pump.op = "none" /\ pump.sent = 0
    /\ queue # <<>> /\ Head(queue).kind = "RenameAny"

\* the event kinds the image branch of handle_file_event publishes for
ImageKinds == {"Create", "ModifyData", "ModifyMeta", "Remove"}

\* the pump receives an event of one of these kinds on a path with an image
\* extension that is no document
ImageEventStep ==
    /\ RecvStep
    /\ Head(Pending).kind \in ImageKinds
    /\ is_image_file(Head(Pending).paths[1])
    /\ ~is_markdown_file(Head(Pending).paths[1])

\* C21: every Create, Modify or Remove event on an image path that is no
\* document takes the pump to the image publish, that publish hands one
\* Reload to every live receiver, and neither step changes the store
C21_ImageEventPublishes ==
    [][ /\ ImageEventStep =>
              pump'.pc = "img_lock" /\ tracked_files' = tracked_files
        /\ (pump.pc = "img_lock" /\ pump' # pump) =>
              /\ ReloadPublished
              /\ pump'.sent = pump.sent + 1
              /\ tracked_files' = tracked_files ]_vars

\* what holds of the image branch: the event publishes when the path is a
\* regular file as the pump handles it, and is ignored when it is not; the
\* store is left alone either way
C21_ExistingImageEventPublishes ==
    [][ /\ ImageEventStep =>
              /\ pump'.pc = IF IsFile(fs, Head(Pending).paths[1])
                            THEN "img_lock" ELSE "recv"
              /\ tracked_files' = tracked_files
        /\ (pump.pc = "img_lock" /\ pump' # pump) =>
              /\ ReloadPublished
              /\ pump'.sent = pump.sent + 1
              /\ tracked_files' = tracked_files ]_vars

\* every way of writing the word w in upper and lower case
Casings(w) ==
    { [i \in 1..Len(w) |-> IF i \in U THEN UpperChars[IndexIn(w[i], LowerChars)] ELSE w[i]] :
        U \in SUBSET (1..Len(w)) }

\* the extensions of the allow-list in every casing
AllowedExts == Casings(EXT_MD) \cup Casings(EXT_MARKDOWN)

\* candidate file names by their parts: a directory, a stem and an
\* extension, or no extension at all
CandDirs == { BaseDir, Join(BaseDir, <<"d",".","m","d">>) }
CandStems == { <<"t">>, <<"t",".","m","d">>, <<".","t">> }
BareStems == { <<"t">>, <<".","t">>, <<".","m","d">>, <<"R","E","A","D","M","E">> }
CandExts == Casings(EXT_MD)
            \cup { EXT_MARKDOWN, <<"M","A","R","K","D","O","W","N">>,
                   <<"M","a","r","k","D","o","w","n">>, <<"m","a","r","k","d","o","w","N">> }
            \cup { <<"t","x","t">>, <<"m","d","x">>, <<"m">>, <<"m","d","~">>,
                   <<"m","a","r","k">>, <<>> }

Candidates ==
    { [dir |-> d, stem |-> st, ext |-> e] : d \in CandDirs, st \in CandStems, e \in CandExts }
    \cup { [dir |-> d, stem |-> st, ext |-> NoExt] : d \in CandDirs, st \in BareStems }

CandPath(c) ==
    Join(c.dir, IF c.ext = NoExt THEN c.stem ELSE c.stem \o <<".">> \o c.ext)

\* C22: is_markdown_file accepts a path exactly when it has an extension
\* that is md or markdown in some casing, so the verdict is the same for
\* every directory and stem; and the pump goes into
\* handle_markdown_file_change for a Create event exactly on such a path
C22_ExtensionDecidesDocument ==
    /\ [](\A c \in Candidates :
            is_markdown_file(CandPath(c)) <=> c.ext \in AllowedExts)
    /\ [][ (RecvStep /\ Head(Pending).kind = "Create") =>
              (pump'.pc = "md_lock" <=>
                  \E c \in Candidates :
                      /\ CandPath(c) = Head(Pending).paths[1]
                      /\ c.ext \in AllowedExts) ]_vars

\* the pump has taken the Create event of the temporary file t.MarkDown as
\* that of a document
C22_Witness ==
    /\ pump.pc = "md_lock" /\ pump.ev.kind = "Create"
    /\ pump.path = PathOf(<<"t",".","M","a","r","k","D","o","w","n">>)

\* the pump is at a send of a Reload and takes it
SendStep == pump.pc \in {"md_send", "img_lock"} /\ pump' # pump

\* C23: the send of a Reload can always be taken, with no receiver, with a
\* receiver whose buffer is full and with one whose connection is closed,
\* and it takes the pump on to where handle_file_event goes next, with the
\* lock released and the store as it was
C23_PublishNeverBlocks ==
    /\ [](pump.pc = "md_send" => ENABLED PumpMdSend)
    /\ []((pump.pc = "img_lock" /\ lock = "free") => ENABLED PumpImgSend)
    /\ [][ SendStep =>
              LET stop == NextStop(pump.ev, pump.i + 1, fs)
              IN  /\ pump'.pc = stop.pc /\ pump'.pc # "md_send"
                  /\ pump'.sent = pump.sent + 1
                  /\ pump'.failed = pump.failed
                  /\ lock' = "free"
                  /\ tracked_files' = tracked_files
                  /\ ReloadPublished ]_vars

\* the pump has sent a Reload and gone on while the one receiver had its
\* buffer full and its connection closed: the receiver lags
C23_Witness ==
    /\ pump.pc = "recv" /\ pump.sent = 1
    /\ \E v \in Viewers :
          /\ subs[v].sub /\ ~subs[v].sock
          /\ subs[v].unread = ChanCap /\ subs[v].lagged

\* the numbers of the first n Reloads sent since a receiver subscribed
Ids(n) == [i \in 1..n |-> i]

\* C24 as claimed: of the Reloads sent since a viewer with an open
\* connection subscribed, every one has been written to its socket or waits
\* in its receiver, in the order they were sent
C24_EveryReloadReceived ==
    \A v \in Viewers :
        (subs[v].sub /\ subs[v].sock) =>
            subs[v].rcvd \o subs[v].buf = Ids(subs[v].pub)

\* C24 as amended: that holds of a receiver that has not fallen behind;
\* nothing sent before the subscription is in the receiver; a receiver with
\* ChanCap Reloads waiting loses the next one sent and lags, and the next
\* turn of a lagging session ends it with nothing more written
C24_ReceivedInOrderUnlessLagged ==
    /\ [](\A v \in Viewers :
            /\ (subs[v].sub /\ ~subs[v].lagged) =>
                  /\ subs[v].rcvd \o subs[v].buf = Ids(subs[v].pub)
                  /\ Len(subs[v].buf) = subs[v].unread
                  /\ subs[v].unread <= ChanCap
            /\ subs[v].lagged =>
                  /\ subs[v].sub /\ subs[v].unread = ChanCap
                  /\ subs[v].pub > Len(subs[v].rcvd) + Len(subs[v].buf))
    /\ [][ \A v \in Viewers :
              /\ (~subs[v].sub /\ subs'[v].sub) =>
                    /\ subs'[v].buf = <<>> /\ subs'[v].unread = 0
                    /\ subs'[v].rcvd = <<>> /\ subs'[v].pub = 0
              /\ (subs[v].sub /\ subs'[v].sub /\ subs'[v].rcvd # subs[v].rcvd) =>
                    /\ subs[v].sock /\ ~subs[v].lagged
                    /\ subs'[v].rcvd = Append(subs[v].rcvd, Len(subs[v].rcvd) + 1)
                    /\ subs'[v].pub = subs[v].pub
              /\ (subs[v].lagged /\ subs'[v].sub) =>
                    /\ subs'[v].lagged
                    /\ subs'[v].rcvd = subs[v].rcvd /\ subs'[v].buf = subs[v].buf ]_vars

\* a.md was written twice, each write reported by two events, and the pump
\* has sent the four Reloads: the viewer subscribed after the first, has
\* been written the second and the third and holds the fourth
C24_Witness ==
    /\ Drained /\ nops = 2
    /\ [path |-> PathOf(A_MD), modified |-> 2, content |-> "X"] \in versions
    /\ [path |-> PathOf(A_MD), modified |-> 2, content |-> "Y"] \in versions
    /\ \E v \in Viewers :
          /\ subs[v].sub /\ subs[v].sock /\ ~subs[v].lagged
          /\ subs[v].pub = 3
          /\ subs[v].rcvd = <<1, 2>> /\ subs[v].buf = <<3>>

\* C25: there are never more live receivers of change_tx than open viewer
\* connections: the receiver of a session is gone as soon as its connection
\* is closed
C25_NoDeadSubscribers ==
    Cardinality({ v \in Viewers : subs[v].sub }) <=
        Cardinality({ v \in Viewers : subs[v].sock })

\* what holds of a closed session: its receiver stays registered, with
\* nothing to do, until a Reload is sent, and the session's next turn after
\* that drops it
C25_DeadSubscriberLeavesAfterPublish ==
    /\ [](\A v \in Viewers :
            (subs[v].sub /\ ~subs[v].sock /\ subs[v].unread = 0 /\ ~subs[v].lagged)
                => ~ENABLED WsSendTask(v))
    /\ [][ \A v \in Viewers :
              (subs[v].sub /\ ~subs[v].sock /\ subs'[v] # subs[v]) =>
                  \/ ~subs'[v].sub
                  \/ subs'[v].pub = subs[v].pub + 1 ]_vars

\* the watcher has delivered a Create or Modify(Data) event of a tracked
\* document that the pump has not received yet
DocEventPending ==
    \E i \in 1..Len(Pending) :
        /\ Pending[i].kind \in {"Create", "ModifyData"}
        /\ KeyOf(fs, Pending[i].paths[1], BaseDir) \in DOMAIN tracked_files

\* the largest number of Reloads the pump sends
MaxReloads == 2 * MaxFsOps

\* C26: when such an event is pending while a viewer is subscribed, the
\* viewer is later written a further Reload, unless its connection is closed
C26_SubscribedViewerGetsReload ==
    \A v \in Viewers : \A n \in 0..MaxReloads :
        (subs[v].sub /\ subs[v].sock /\ Len(subs[v].rcvd) = n /\ DocEventPending)
            ~> (~subs[v].sock \/ Len(subs[v].rcvd) > n)

\* what holds: the viewer is written a further Reload unless its connection
\* is closed or its session has ended
C26_ViewerGetsReloadOrSessionEnds ==
    \A v \in Viewers : \A n \in 0..MaxReloads :
        (subs[v].sub /\ subs[v].sock /\ Len(subs[v].rcvd) = n /\ DocEventPending)
            ~> (~subs[v].sock \/ ~subs[v].sub \/ Len(subs[v].rcvd) > n)

\* the pump has in hand a Modify(Data) event of a document
ModifyInHand == pump.ev.kind = "ModifyData" /\ is_markdown_file(pump.ev.paths[1])

FileNewer(k) ==
    /\ IsFile(fs, tracked_files[k].path)
    /\ fs[tracked_files[k].path].modified > tracked_files[k].last_modified

\* the rendering of what the file of the tracked key k holds now
CurrentRendering(k) == markdown_to_html(fs[tracked_files[k].path].content)

\* C28: a request for a tracked key whose file is strictly newer than the
\* stored timestamp is answered with the rendering of what the file holds
\* now, whatever the pump has handled, and the request for the root page
\* likewise for the first key
C28_RequestServesCurrentContent ==
    /\ \A k \in DOMAIN tracked_files :
          FileNewer(k) =>
              /\ Served(tracked_files, k, fs).status = 200
              /\ Served(tracked_files, k, fs).body = CurrentRendering(k)
    /\ LET out == serve_html_root(tracked_files, fs)
       IN  (tracked_files # << >> /\ FileNewer(out.resp.path)) =>
              out.resp.body = CurrentRendering(out.resp.path)

\* what holds: the same for a key that ends in .md or .markdown as written
\* and a file that can be read, and for the root page when the file of the
\* first key can be read; the request stores what it answers with
C28_RequestServesCurrentIfReadable ==
    /\ \A k \in DOMAIN tracked_files :
          (/\ FileNewer(k) /\ fs[tracked_files[k].path].readable
           /\ (EndsWith(k, DOT_MD) \/ EndsWith(k, DOT_MARKDOWN))) =>
              LET out == serve_file(tracked_files, k, fs)
              IN  /\ out.resp.status = 200
                  /\ out.resp.body = CurrentRendering(k)
                  /\ out.tracked[k].html = CurrentRendering(k)
                  /\ out.tracked[k].last_modified = fs[tracked_files[k].path].modified
    /\ LET out == serve_html_root(tracked_files, fs)
       IN  (/\ tracked_files # << >> /\ FileNewer(out.resp.path)
            /\ fs[tracked_files[out.resp.path].path].readable) =>
              /\ out.resp.status = 200
              /\ out.resp.body = CurrentRendering(out.resp.path)

\* the orders in which HashMap::keys may yield the keys of the store
KeyOrders(tf) ==
    { o \in [1..Cardinality(DOMAIN tf) -> DOMAIN tf] :
        \A i, j \in DOMAIN o : i # j => o[i] # o[j] }

\* Vec<String>::sort: ascending by String's Ord
RECURSIVE Insert(_, _)
Insert(x, sorted) ==
    IF sorted = <<>> THEN <<x>>
    ELSE IF StrLess(x, Head(sorted)) THEN <<x>> \o sorted
    ELSE <<Head(sorted)>> \o Insert(x, Tail(sorted))

RECURSIVE sort(_)
sort(v) ==
    IF v = <<>> THEN <<>>
    ELSE Insert(v[Len(v)], sort(SubSeq(v, 1, Len(v) - 1)))

\* C29: get_sorted_filenames returns the tracked keys, all of them and each
\* once, in strictly ascending byte order (an upper-case letter before every
\* lower-case one), and the same sequence whatever order the map yields its
\* keys in
C29_ListKeysSortedExact ==
    LET names == get_sorted_filenames(tracked_files)
    IN  /\ { names[i] : i \in 1..Len(names) } = DOMAIN tracked_files
        /\ Len(names) = Cardinality(DOMAIN tracked_files)
        /\ \A i, j \in 1..Len(names) : i < j => StrLess(names[i], names[j])
        /\ \A o \in KeyOrders(tracked_files) : sort(o) = names
        /\ {A_MD, B_MD} \subseteq DOMAIN tracked_files => names = <<B_MD, A_MD>>

\* in an empty directory a.md was created and admitted, then B.MD: the key
\* added last is listed first
C29_Witness ==
    /\ nops = 2 /\ pump.op = "add" /\ pump.res = "ok" /\ pump.key = B_MD
    /\ fs[PathOf(A_BAK)] = NoFile /\ fs[ImgFile] = NoFile
    /\ get_sorted_filenames(tracked_files) = <<B_MD, A_MD>>

\* the document links of a navigation tree from top to bottom
RECURSIVE NavPaths(_)
NavPaths(items) ==
    IF items = <<>> THEN <<>>
    ELSE (IF Head(items).is_dir THEN NavPaths(Head(items).children)
          ELSE <<Head(items).path>>) \o NavPaths(Tail(items))

\* the navigation render_markdown shows in directory mode
Navigation == NavPaths(build_file_tree(get_sorted_filenames(tracked_files)))

PosIn(seq, x) == CHOOSE i \in 1..Len(seq) : seq[i] = x

\* the directory part of a key
DirOf(k) == SubSeq(k, 1, LastIndexOf(k, "/"))

SameDirKeys ==
    { pr \in (DOMAIN tracked_files) \X (DOMAIN tracked_files) :
        pr[1] # pr[2] /\ DirOf(pr[1]) = DirOf(pr[2]) }

\* C30 as claimed: of two tracked keys in the same directory the smaller one
\* in the order of get_sorted_filenames comes first in the navigation
C30_NavigationInListOrder ==
    is_directory_mode =>
        \A pr \in SameDirKeys :
            StrLess(pr[1], pr[2]) =>
                PosIn(Navigation, pr[1]) < PosIn(Navigation, pr[2])

\* C30 as amended: the navigation lists every tracked key once, and of two
\* keys in the same directory the one with the smaller lower-cased file name
\* comes first; with equal lower-cased names the order of
\* get_sorted_filenames decides
C30_NavigationByLowerCasedName ==
    is_directory_mode =>
        /\ Len(Navigation) = Cardinality(DOMAIN tracked_files)
        /\ { Navigation[i] : i \in 1..Len(Navigation) } = DOMAIN tracked_files
        /\ \A pr \in SameDirKeys :
              LET a == ToLower(FileName(pr[1]))
                  b == ToLower(FileName(pr[2]))
              IN  (StrLess(a, b) \/ (a = b /\ StrLess(pr[1], pr[2]))) =>
                      PosIn(Navigation, pr[1]) < PosIn(Navigation, pr[2])

\* a.md and B.MD are both tracked: the list of keys starts with B.MD, the
\* navigation with a.md
C30_Witness ==
    /\ is_directory_mode
    /\ get_sorted_filenames(tracked_files) = <<B_MD, A_MD>>
    /\ Navigation = <<A_MD, B_MD>>

\* C31: GET / answers with the artifact of the smallest tracked key in byte
\* order, after refreshing that document and no other; with no tracked key
\* it answers with an error and leaves the store as it is
C31_RootServesSmallestKey ==
    LET out == serve_html_root(tracked_files, fs)
    IN  IF DOMAIN tracked_files = {}
        THEN /\ out.resp.status = 500
             /\ out.tracked = tracked_files
        ELSE \E k \in DOMAIN tracked_files :
                /\ \A j \in DOMAIN tracked_files \ {k} : StrLess(k, j)
                /\ out.resp.path = k
                /\ out.resp.status = 200
                /\ DOMAIN out.tracked = DOMAIN tracked_files
                /\ out.resp.body = out.tracked[k].html
                /\ out.tracked[k] = refresh_file(tracked_files, k, fs).tracked[k]
                /\ \A j \in DOMAIN tracked_files \ {k} : out.tracked[j] = tracked_files[j]

\* a.md and B.MD are tracked and B.MD has been written since: GET / refreshes
\* B.MD and answers with the rendering of its new content
C31_Witness ==
    /\ DOMAIN tracked_files = {A_MD, B_MD}
    /\ fs[PathOf(B_MD)].exists /\ fs[PathOf(B_MD)].readable
    /\ fs[PathOf(B_MD)].modified > tracked_files[B_MD].last_modified
    /\ serve_html_root(tracked_files, fs).resp =
          Response("root", B_MD, 200, markdown_to_html(fs[PathOf(B_MD)].content), "ok")

\* the paths requested: the names under the root and two names no file has
LookupNames ==
    Names \cup { <<"n",".","m","d">>, <<"n",".","m","a","r","k","d","o","w","n">> }

\* C32: a request for a path that is no tracked key and no image is answered
\* 404 "File not found" and leaves the store as it is: no key is added and
\* no entry changed, in fixed and in directory mode, also while a markdown
\* file of that name is on disk; and no request sends a Reload: a viewer's
\* count of Reloads sent grows only by a sending step of the pump
C32_UntrackedLookupNotFound ==
    /\ [](\A n \in LookupNames :
            (n \notin DOMAIN tracked_files /\ ~is_image_file(n)) =>
                /\ Served(tracked_files, n, fs).status = 404
                /\ Served(tracked_files, n, fs).body = NOT_FOUND
                /\ serve_file(tracked_files, n, fs).tracked = tracked_files)
    /\ [][ (\E v \in Viewers : subs[v].sub /\ subs'[v].sub /\ subs'[v].pub # subs[v].pub) =>
              /\ pump.pc \in {"md_send", "img_send"} /\ pump'.pc # pump.pc
              /\ tracked_files' = tracked_files ]_vars

\* directory mode, a viewer is subscribed, a.md has been created in the
\* empty directory and the pump has not admitted it yet: GET /a.md is
\* answered 404 although the file is there
C32_Witness ==
    /\ is_directory_mode
    /\ \E v \in Viewers : subs[v].sub /\ subs[v].sock
    /\ fs[PathOf(A_MD)].exists /\ fs[PathOf(A_MD)].readable
    /\ A_MD \notin DOMAIN tracked_files
    /\ lock = "free"
    /\ Served(tracked_files, A_MD, fs).status = 404

\* C38: every tracked key is servable: a request for it is answered 200 with
\* its artifact, also when its extension is written in upper or mixed case
C38_EveryTrackedKeyServable ==
    \A k \in DOMAIN tracked_files :
        LET out == serve_file(tracked_files, k, fs)
        IN  /\ out.resp.status = 200
            /\ out.resp.body = out.tracked[k].html

\* what holds: a tracked key is servable exactly when it ends in ".md" or
\* ".markdown" as written; every other tracked key is answered 404
C38_ServableIffLowerCaseExtension ==
    \A k \in DOMAIN tracked_files :
        LET out == serve_file(tracked_files, k, fs)
        IN  IF EndsWith(k, DOT_MD) \/ EndsWith(k, DOT_MARKDOWN)
            THEN out.resp.status = 200 /\ out.resp.body = out.tracked[k].html
            ELSE out.resp.status = 404 /\ out.resp.body = NOT_FOUND

\* C39: when the pump handles a Create, Modify(Data) or destination-rename
\* event of a tracked document, it goes on to send a Reload exactly when
\* refresh_file returns Ok, and then sends exactly one; a refresh that finds
\* the file not newer returns Ok and leaves the store as it is, so the
\* Reload is sent for an event that changed nothing
C39_ReloadIffRefreshOk ==
    [][ /\ (MutateStep /\ PumpKey \in DOMAIN tracked_files) =>
              LET r == refresh_file(tracked_files, PumpKey, fs)
                  f == fs[tracked_files[PumpKey].path]
              IN  /\ tracked_files' = r.tracked
                  /\ r.ok <=> (pump'.pc = "md_send" /\ lock' = "pump")
                  /\ ~r.ok => (pump'.sent = pump.sent /\ subs' = subs)
                  /\ (f.exists /\ f.modified <= tracked_files[PumpKey].last_modified) =>
                        r.ok /\ tracked_files' = tracked_files
        /\ (pump.pc = "md_send" /\ pump' # pump) =>
              ReloadPublished /\ pump'.sent = pump.sent + 1 /\ pump'.pc # "md_send" ]_vars

\* a.md was written again with the content and the time it already had: the
\* store still holds its initial entry, and the subscribed viewer holds the
\* Reload of that event
C39_Witness ==
    /\ nops = 1 /\ fs = FullDir
    /\ tracked_files[A_MD] = TrackedFile(PathOf(A_MD), 1, markdown_to_html("X"))
    /\ pump.pc = "recv" /\ pump.key = A_MD /\ pump.op = "refresh" /\ pump.res = "ok"
    /\ pump.sent = 1
    /\ \E v \in Viewers : subs[v].sub /\ subs[v].unread = 1

\* the ports from start_port up to, not including, the one the loop is at
TriedBefore == boot.start_port..(boot.port - 1)

\* C37: bind_with_port_increment tries the ports upwards from start_port,
\* one by one: the ports before the one it is at were in use; it returns the
\* first port that is not in use, which is start_port when that is free and
\* lies in start_port..start_port+99; it fails at the first port whose bind
\* fails for another reason, after 100 ports in use, and after port 65535 in
\* use, and never goes beyond 65535 or back to a lower port
C37_BindsSmallestFreePort ==
    /\ [](/\ boot.start_port <= boot.port
          /\ boot.port <= MaxPort
          /\ boot.port - boot.start_port < MAX_PORT_ATTEMPTS
          /\ \A q \in TriedBefore : q \in boot.in_use /\ q \notin boot.denied)
    /\ [](boot.pc = "serve" =>
            /\ boot.port \notin boot.in_use
            /\ \A q \in boot.start_port..MaxPort :
                  (q \notin boot.in_use /\ q - boot.start_port < MAX_PORT_ATTEMPTS) =>
                      boot.port <= q
            /\ boot.start_port \notin boot.in_use => boot.port = boot.start_port)
    /\ [](boot.pc = "exit" =>
            \/ boot.err = "bind" /\ boot.port \in boot.denied
            \/ /\ boot.err = "none_free"
               /\ boot.port = boot.start_port + MAX_PORT_ATTEMPTS - 1
               /\ \A q \in boot.start_port..boot.port : q \in boot.in_use
            \/ /\ boot.err = "exhausted"
               /\ boot.port = MaxPort
               /\ \A q \in boot.start_port..MaxPort : q \in boot.in_use)
    /\ [][ boot' # boot =>
           /\ boot.pc = "bind"
           /\ boot'.start_port = boot.start_port
           /\ boot'.in_use = boot.in_use /\ boot'.denied = boot.denied
           /\ \/ boot'.pc = "bind" /\ boot'.port = boot.port + 1
                   /\ boot.port \in boot.in_use /\ boot.port \notin boot.denied
              \/ boot'.pc = "serve" /\ boot'.port = boot.port
                   /\ boot.port \notin boot.in_use /\ boot.port \notin boot.denied
              \/ boot'.pc = "exit" /\ boot'.port = boot.port
                   /\ (boot.port \in boot.in_use \/ boot.port \in boot.denied)
                   /\ (boot.port \in boot.denied => boot'.err = "bind") ]_vars

\* three ports from the one asked for are in use and the fourth is bound
C37_Witness ==
    /\ boot.pc = "serve"
    /\ boot.in_use = boot.start_port..(boot.start_port + 2)
    /\ boot.port = boot.start_port + 3

\* the initial paths new_router may be given: up to two of the documents
\* under the root, in either order
StartPaths == { Join(BaseDir, A_MD), Join(BaseDir, B_MD), Join(BaseDir, L_MD),
                Join(BaseDir, D_N_MD) }
StartInputs ==
    { <<p>> : p \in StartPaths } \cup { <<p, q>> : p \in StartPaths, q \in StartPaths }

Readable(fsys, p) == Metadata(fsys, p).ok /\ ReadToString(fsys, p).ok

\* C34: MarkdownState::new, called on the tree the server is started on,
\* returns an error exactly when one of the initial paths cannot be stat'ed
\* or read, and otherwise a store with an entry for
\* every one of them, never for some only; new_router then either has built
\* the whole store or has failed, and after the failure there is no store,
\* no event is ever queued, the pump never runs and no request is answered
C34_StartupAllOrNothing ==
    /\ [](boot.pc = "new_router" => \A file_paths \in StartInputs :
            LET r == new(file_paths, BaseDir, fs)
                all == { file_paths[i] : i \in 1..Len(file_paths) }
            IN  /\ r.ok <=> \A p \in all : Readable(fs, p)
                /\ ~r.ok => r.tracked = EmptyStore
                /\ r.ok =>
                      /\ DOMAIN r.tracked = { KeyOf(fs, p, BaseDir) : p \in all }
                      /\ \A p \in all :
                            r.tracked[KeyOf(fs, p, BaseDir)] =
                                TrackedFile(Canonicalize(fs, p).path,
                                            Metadata(fs, p).modified,
                                            markdown_to_html(ReadToString(fs, p).content)))
    /\ [](boot.pc \in {"new_router", "exit"} =>
            /\ tracked_files = EmptyStore
            /\ queue = <<>> /\ os_events = <<>> /\ nops = 0
            /\ pump = PumpIdle /\ lock = "free")
    /\ []((boot.pc = "bind" /\ nops = 0 /\ is_directory_mode) =>
            /\ \A p \in scan_markdown_files(fs) : Readable(fs, p)
            /\ DOMAIN tracked_files = { KeyOf(fs, p, BaseDir) : p \in scan_markdown_files(fs) })
    /\ [][ boot.pc # "exit" ]_vars
    /\ [][ (boot.pc = "new_router" /\ boot' # boot) =>
              \/ boot'.pc = "bind"
              \/ boot'.pc = "exit" /\ boot'.err = "io" /\ tracked_files' = EmptyStore ]_vars

\* directory mode on a root whose a.md cannot be read while B.MD can: the
\* startup has failed and no store tracking B.MD alone exists
C34_Witness ==
    /\ is_directory_mode
    /\ boot.pc = "exit" /\ boot.err = "io"
    /\ ~fs[Join(BaseDir, A_MD)].readable /\ fs[Join(BaseDir, B_MD)].readable
    /\ tracked_files = EmptyStore

\* C35: scan_markdown_files returns only markdown files that lie directly in
\* the directory it is given, none from a subdirectory
C35_ScanIgnoresSubdirectories ==
    \A p \in scan_markdown_files(fs) : SlashPos(StripPrefixOr(p, BaseDir)) = 0

\* what holds: the document in the subdirectory is in the result of the scan
\* whenever it exists, and a start in directory mode on a tree that holds it
\* tracks it under the key d/n.md
C35_ScanDescendsIntoSubdirectories ==
    IsFile(fs, Join(BaseDir, D_N_MD)) =>
        /\ Join(BaseDir, D_N_MD) \in scan_markdown_files(fs)
        /\ (is_directory_mode /\ boot.pc \in {"bind", "serve"} /\ nops = 0) =>
              D_N_MD \in DOMAIN tracked_files

\* the markdown paths under the root that initialization and events name
DocPaths == { p \in BootFiles : StripPrefixOr(p, BaseDir) # p /\ is_markdown_file(p) }

\* the key a path must get: that of the file it leads to, relative to the
\* root when the file lies under it; the path itself, relative to the root,
\* when it leads to no file
ExpectedKey(p) ==
    IF IsFile(fs, p) /\ p = Join(BaseDir, L_MD) THEN A_MD
    ELSE IF IsFile(fs, p) /\ p = Join(BaseDir, X_MD) THEN OUT_MD
    ELSE IF p = Join(BaseDir, D_N_MD) THEN D_N_MD
    ELSE FileName(p)

\* C33: initialization and admission derive the same key for a path, the
\* canonical path of its file with the root stripped, or the path as given
\* when it leads to no file; a refresh reads the canonical path stored with
\* the key; so every entry is stored under the key of its own file and no
\* two entries belong to the same file, also when a file is named through a
\* link
C33_OneKeyPerFile ==
    /\ [](\A p \in DocPaths :
            /\ KeyOf(fs, p, BaseDir) = ExpectedKey(p)
            /\ store_change(tracked_files, is_directory_mode, p, fs).key = ExpectedKey(p))
    /\ [](\A k \in DOMAIN tracked_files :
            /\ tracked_files[k].path \in BootFiles \ DOMAIN LinkTarget
            /\ k = StripPrefixOr(tracked_files[k].path, BaseDir)
            /\ \A j \in DOMAIN tracked_files :
                  j # k => tracked_files[j].path # tracked_files[k].path)
    /\ [][ (boot.pc = "new_router" /\ boot'.pc = "bind" /\ is_directory_mode) =>
              DOMAIN tracked_files' = { ExpectedKey(p) : p \in scan_markdown_files(fs) } ]_vars
    /\ [][ MutateStep => pump'.key = ExpectedKey(pump.path) ]_vars

\* the link l.md to a.md was made while the server ran in directory mode:
\* the pump took the event of the link for the key a.md and refreshed that
\* entry; no key l.md exists
C33_Witness ==
    /\ is_directory_mode /\ boot.pc = "serve"
    /\ fs[Join(BaseDir, L_MD)].exists
    /\ pump.pc = "recv" /\ pump.ev = Event("Create", <<Join(BaseDir, L_MD)>>)
    /\ pump.key = A_MD /\ pump.op = "refresh" /\ pump.res = "ok"
    /\ A_MD \in DOMAIN tracked_files /\ L_MD \notin DOMAIN tracked_files

\* the path lies under the root
UnderRoot(p) == StripPrefixOr(p, BaseDir) # p

\* the file whose content a 200 response to GET /<n> carries
SourceOf(out, n) ==
    IF out.resp.route = "static" THEN Canonicalize(fs, Join(BaseDir, n)).path
    ELSE out.tracked[n].path

\* C36: every request that is answered 200, for the root, a document or an
\* image, is answered with the content of a file under the root
C36_NoContentFromOutsideRoot ==
    boot.pc = "serve" =>
        /\ LET out == serve_html_root(tracked_files, fs)
           IN  out.resp.status = 200 => UnderRoot(out.tracked[out.resp.path].path)
        /\ \A n \in BootRequests :
              LET out == serve_file(tracked_files, n, fs)
              IN  out.resp.status = 200 => UnderRoot(SourceOf(out, n))

\* what holds: a static-file request is answered 200 only with the bytes of
\* the file its canonical path names, and only if that path lies under the
\* root; the names that lead out of the root through ".." or through a link
\* are answered 403
C36_StaticConfinedToRoot ==
    \A n \in BootRequests :
        LET out == serve_file(tracked_files, n, fs)
            c   == Canonicalize(fs, Join(BaseDir, n))
        IN  out.resp.route = "static" =>
              /\ out.resp.status = 200 =>
                    c.ok /\ UnderRoot(c.path) /\ out.resp.body = <<"bytes", fs[c.path].content>>
              /\ (c.ok /\ ~UnderRoot(c.path)) => out.resp.status = 403
              /\ (n = J_PNG /\ fs[Join(BaseDir, J_PNG)].exists) => out.resp.status = 403
              /\ n \notin {I_PNG, J_PNG} => out.resp.status = 403


\* C40: the system never deadlocks. The lock is held by the pump only in
\* its send step and by a request handler only in its answering step, and
\* each of the two steps can be taken whenever it is reached: nobody waits
\* for the queue or for a subscriber while holding the lock. Under fair
\* scheduling every event delivered by the watcher, those of a callback
\* blocked on the full queue included, is processed, and every request that
\* arrived is answered
C40_NoDeadlock ==
    /\ [](lock = "pump" <=> pump.pc = "md_send")
    /\ [](lock = "req" <=> (req.pc = "hold" /\ TakesLock(req.path)))
    /\ [](pump.pc = "md_send" => ENABLED <<PumpMdSend>>_vars)
    /\ [](req.pc = "hold" => ENABLED <<ReqServe>>_vars)
    /\ ~Drained ~> Drained
    /\ \A n \in 0..(MaxRequests - 1) :
          (req.pc # "idle" /\ req.answered = n) ~> (req.answered = n + 1)

\* the watcher callback blocked on the full queue while the pump holds the
\* lock and a request handler waits for it, a viewer being subscribed
C40_Witness ==
    /\ os_events # <<>> /\ Len(queue) = QueueCap
    /\ lock = "pump"
    /\ req.pc = "wait" /\ TakesLock(req.path)
    /\ \E v \in Viewers : subs[v].sub

====
